---- MODULE Spec2Model ----
(***************************************************************************)
(* Return/refund lifecycle orchestrator of the order service               *)
(* (controllers/return.js) as a state machine.                             *)
(*                                                                         *)
(* Spec      : every handler runs to completion, one request after         *)
(*             another.                                                    *)
(* SpecConc  : two requests at a time on one return that is under          *)
(*             inspection; completeInspection and processRefund are split  *)
(*             at their awaits (findById ... save) and interleave.         *)
(*                                                                         *)
(* Modelling conventions                                                   *)
(*  - a Mongo _id of a Return / Refund document is its index in the        *)
(*    collection; 0 stands for null / undefined.                           *)
(*  - a Date written by the code is kept as "stamped or not" (BOOLEAN),    *)
(*    except deliveredAt and the clock, which are days.                    *)
(*  - money is in rupees in the documents and in paise at the gateway.     *)
(*  - writes of Return documents are taken to succeed; the outcome of      *)
(*    every HTTP collaborator and of the Refund-ledger insert, the day on  *)
(*    the clock and the Payment record of the order (a collection this     *)
(*    controller only reads) are inputs of the handler that uses them.     *)
(***************************************************************************)
EXTENDS Integers, Sequences, FiniteSets, TLC

VARIABLES
    returns,     \* Return collection: sequence of documents, _id = index
    orders,      \* Order collection: orderId -> order document
    refunds,     \* Refund collection (refund ledger): sequence of documents
    gateway,     \* calls the payment provider accepted, in order
    response,    \* what the last handler sent with sendSuccess / sendError
    pc,          \* SpecConc: worker -> position inside its handler
    local,       \* SpecConc: worker -> the document it holds in memory
    violations,  \* SLAViolation collection: sequence of documents
    dealerSlas   \* DealerSLA collection: dealer_id -> configuration

\* the collections of the SLA engine, which the return handlers never touch
slaVars == <<violations, dealerSlas>>

vars == <<returns, orders, refunds, gateway, response, pc, local, violations,
          dealerSlas>>

----------------------------------------------------------------------------
(* Bounds *)

MaxReturns == 2      \* Return documents that may be created
MaxGateway == 2      \* provider calls that may be accepted
MaxNotes == 1        \* notes per Return document
DeliveredDay == 1    \* day on which the delivered item was delivered
ClockDays == 1       \* days the clock runs on after the first day

OrderIds == {1}
SKUs == {"A", "B"}
Customer == "c1"
Workers == {1, 2}

(* Inputs of the handlers *)
CreateBody(orderId, sku, quantity, returnReason, customerId) ==
    [orderId |-> orderId, sku |-> sku, quantity |-> quantity,
     returnReason |-> returnReason, customerId |-> customerId]

\* request bodies of create: a return of item "A" in every quantity, and one
\* body for each way of being refused (0 and "": field missing, order 2 does
\* not exist, "Z" is not in the order, "c2" is not the customer)
CreateInputs ==
    {CreateBody(1, "A", quantity, "damaged", "c1") : quantity \in {1, 2, 3}}
    \cup {CreateBody(0, "A", 1, "damaged", "c1"),
          CreateBody(1, "", 1, "damaged", "c1"),
          CreateBody(1, "A", 1, "", "c1"),
          CreateBody(1, "A", 1, "damaged", ""),
          CreateBody(2, "A", 1, "damaged", "c1"),
          CreateBody(1, "Z", 1, "damaged", "c1"),
          CreateBody(1, "A", 1, "damaged", "c2"),
          CreateBody(1, "B", 1, "damaged", "c2")}
RefundMethods == {"Original_Payment_Method", "Bank_Account", "Wallet"}
UserOutcomes == {"unavailable", "no_bank", "bank"}
\* "ledger_failed": the provider accepted the call, the Refund insert threw
PayoutOutcomes == {"ok", "contact_failed", "fund_account_failed", "payout_failed",
                   "ledger_failed"}
\* "failed": the provider answered with status "failed"; "rejected": the
\* refund call threw; "lookup_failed": the payment lookup threw
RefundOutcomes == {"processed", "failed", "rejected", "lookup_failed",
                   "ledger_failed"}

----------------------------------------------------------------------------
(* Statuses and messages, as written in the controller *)

Statuses ==
    {"Requested", "Validated", "Pickup_Scheduled", "Pickup_Completed",
     "Under_Inspection", "Approved", "Rejected", "Refund_Processed", "Completed"}

MsgMissing == "Missing required fields: orderId, sku, returnReason, customerId"
MsgExists == "Return request already exists for this order and SKU"
MsgOrderNotFound == "Order not found"
MsgUnauthorized == "Unauthorized: Order does not belong to customer"
MsgSkuNotFound == "SKU not found in order"
MsgQuantity == "Return quantity cannot exceed ordered quantity"
MsgReturnNotFound == "Return request not found"
MsgMustValidated == "Return request must be validated before scheduling pickup"
MsgMustPickupScheduled == "Return request must be in Pickup_Scheduled status"
MsgMustPickupCompleted == "Return request must be in Pickup_Completed status"
MsgMustUnderInspection == "Return request must be in Under_Inspection status"
MsgMustApproved == "Return request must be approved before processing refund"
MsgMustRefundProcessed == "Return request must have refund processed before completion"
MsgRefundFailed == "Refund processing failed"

NoTimestamps ==
    [requestedAt |-> FALSE, validatedAt |-> FALSE, pickupScheduledAt |-> FALSE,
     pickupCompletedAt |-> FALSE, inspectionStartedAt |-> FALSE,
     inspectionCompletedAt |-> FALSE, refundProcessedAt |-> FALSE,
     completedAt |-> FALSE]

NoPickup == [pickupId |-> "", trackingNumber |-> "", completed |-> FALSE]

NoInspection == [inspectedBy |-> "", isApproved |-> "unset", condition |-> ""]

\* The response of the request being served: op and returnId say which
\* handler answered and for which document (about: the orderId and sku of a
\* create); status is the returnStatus of the document handed to sendSuccess;
\* notified lists the recipients of the notifications sent.
NoAbout == [orderId |-> 0, sku |-> ""]

NoResponse == [op |-> "", returnId |-> 0, about |-> NoAbout, ok |-> FALSE,
               message |-> "", status |-> "", notified |-> <<>>]

sendSuccess(op, id, doc, notified) ==
    [op |-> op, returnId |-> id, about |-> NoAbout, ok |-> TRUE, message |-> "",
     status |-> doc.returnStatus, notified |-> notified]

sendError(op, id, message, notified) ==
    [op |-> op, returnId |-> id, about |-> NoAbout, ok |-> FALSE,
     message |-> message, status |-> "", notified |-> notified]

----------------------------------------------------------------------------
(* Collections *)

ReturnIds == 1..Len(returns)

\* the query with the bug "only returns still in progress count"
FindReturnInProgress(orderId, sku) ==
    LET hits == {i \in ReturnIds : /\ returns[i].orderId = orderId
                                   /\ returns[i].sku = sku
                                   /\ returns[i].returnStatus \notin {"Completed", "Rejected"}}
    IN IF hits = {} THEN 0 ELSE CHOOSE i \in hits : \A j \in hits : i <= j

\* Return.findOne({ orderId, sku }): the first matching document, 0 if none
FindReturn(orderId, sku) ==
    LET hits == {i \in ReturnIds : returns[i].orderId = orderId /\ returns[i].sku = sku}
    IN IF hits = {} THEN 0 ELSE CHOOSE i \in hits : \A j \in hits : i <= j

\* order.skus.find((s) => s.sku === sku)
HasSku(order, sku) == sku \in DOMAIN order.skus

----------------------------------------------------------------------------
(* Eligibility evaluator *)

ReturnWindowDays == 7

\* the evaluator with the bug "a product that is not returnable is named
\* first, also when the window has expired"
validateReturnEligibilityProductFirst(order, sku, today, product) ==
    IF ~HasSku(order, sku)
    THEN [isEligible |-> FALSE, reason |-> "SKU not found in order",
          isWithinReturnWindow |-> FALSE, isProductReturnable |-> FALSE,
          returnWindowDays |-> 0]
    ELSE IF order.skus[sku].deliveredAt = 0
    THEN [isEligible |-> FALSE, reason |-> "Delivery date not found",
          isWithinReturnWindow |-> FALSE, isProductReturnable |-> FALSE,
          returnWindowDays |-> 0]
    ELSE LET returnDeadline == order.skus[sku].deliveredAt + ReturnWindowDays
             isWithinReturnWindow == today <= returnDeadline
             isProductReturnable == product = "returnable"
             isEligible == isWithinReturnWindow /\ isProductReturnable
         IN [isEligible |-> isEligible,
             reason |-> IF isEligible THEN "Return request is eligible"
                        ELSE IF ~isProductReturnable THEN "Product is not returnable"
                        ELSE "Return window has expired",
             isWithinReturnWindow |-> isWithinReturnWindow,
             isProductReturnable |-> isProductReturnable,
             returnWindowDays |-> ReturnWindowDays]

\* validateReturnEligibility(order, sku) on day today; product is what the
\* product service answers: is_returnable true, is_returnable false, or no
\* successful answer. Fields the code leaves undefined on its early returns
\* are FALSE / 0 here.
validateReturnEligibility(order, sku, today, product) ==
    IF ~HasSku(order, sku)
    THEN [isEligible |-> FALSE, reason |-> "SKU not found in order",
          isWithinReturnWindow |-> FALSE, isProductReturnable |-> FALSE,
          returnWindowDays |-> 0]
    ELSE IF order.skus[sku].deliveredAt = 0
    THEN [isEligible |-> FALSE, reason |-> "Delivery date not found",
          isWithinReturnWindow |-> FALSE, isProductReturnable |-> FALSE,
          returnWindowDays |-> 0]
    ELSE LET returnDeadline == order.skus[sku].deliveredAt + ReturnWindowDays
             isWithinReturnWindow == today <= returnDeadline
             isProductReturnable == product = "returnable"
             isEligible == isWithinReturnWindow /\ isProductReturnable
         IN [isEligible |-> isEligible,
             reason |-> IF isEligible THEN "Return request is eligible"
                        ELSE IF ~isWithinReturnWindow THEN "Return window has expired"
                        ELSE "Product is not returnable",
             isWithinReturnWindow |-> isWithinReturnWindow,
             isProductReturnable |-> isProductReturnable,
             returnWindowDays |-> ReturnWindowDays]

----------------------------------------------------------------------------
(* Logistics *)

\* createLogisticsPickupRequest: the fields of the pickup sub-record the
\* booking decides. Dealer lookup and geocoding never throw (they return
\* null); a failed Borzo call leaves borzoResponse null.
createLogisticsPickupRequest(borzoOk) ==
    [pickupId |-> IF borzoOk THEN "BORZO_ORDER" ELSE "PICKUP_local",
     trackingNumber |-> IF borzoOk THEN "BORZO_TRACKING" ELSE "TRK_local"]

\* returnStatus = "Pickup_Scheduled"; pickupRequest = {...old, ...new};
\* timestamps.pickupScheduledAt = new Date()   (both schedulePickup bodies)
\* the update with the bug "the scheduling is not stamped"
PickupScheduledUpdateNoStamp(doc, borzoOk) ==
    LET p == createLogisticsPickupRequest(borzoOk)
    IN [doc EXCEPT !.returnStatus = "Pickup_Scheduled",
                   !.pickupRequest.pickupId = p.pickupId,
                   !.pickupRequest.trackingNumber = p.trackingNumber]

PickupScheduledUpdate(doc, borzoOk) ==
    LET p == createLogisticsPickupRequest(borzoOk)
    IN [doc EXCEPT !.returnStatus = "Pickup_Scheduled",
                   !.pickupRequest.pickupId = p.pickupId,
                   !.pickupRequest.trackingNumber = p.trackingNumber,
                   !.timestamps.pickupScheduledAt = TRUE]

\* async function schedulePickup(returnId, authToken): no status check
schedulePickupInternal(rs, id, borzoOk) ==
    [rs EXCEPT ![id] = PickupScheduledUpdate(rs[id], borzoOk)]

----------------------------------------------------------------------------
(* Initial state: an order of two items, "A" delivered and "B" not yet
   delivered *)

\* the days on which handlers run: the last day of A's return window and
\* the ClockDays days after it
Days == (DeliveredDay + ReturnWindowDays)..(DeliveredDay + ReturnWindowDays + ClockDays)

ProductOutcomes == {"returnable", "not_returnable", "unavailable"}

\* what a worker holds between the steps of its handler: the document it
\* read, the refund result, and the response it sent last
IdleLocal == [id |-> 0, doc |-> [returnStatus |-> ""], refundMethod |-> "",
              transactionId |-> 0, response |-> NoResponse]

OrderItem(quantity, deliveredAt) ==
    [quantity |-> quantity, selling_price |-> 1, deliveredAt |-> deliveredAt,
     dealerId |-> "d1", return_id |-> 0]

PaymentChoices ==
    {[exists |-> FALSE, hasPaymentId |-> FALSE, amount |-> 0],
     [exists |-> TRUE, hasPaymentId |-> FALSE, amount |-> 0],
     [exists |-> TRUE, hasPaymentId |-> TRUE, amount |-> 200]}

Init ==
    /\ returns = <<>>
    /\ orders = [o \in OrderIds |->
                   [userId |-> Customer,
                    skus |-> [s \in SKUs |->
                                IF s = "A" THEN OrderItem(2, DeliveredDay)
                                           ELSE OrderItem(1, 0)]]]
    /\ refunds = <<>>
    /\ gateway = <<>>
    /\ response = NoResponse
    /\ pc = [w \in Workers |-> "idle"]
    /\ local = [w \in Workers |-> IdleLocal]
    /\ violations = <<>>
    /\ dealerSlas = <<>>

----------------------------------------------------------------------------
(* 1. createReturnRequest *)

NewReturn(orderId, customerId, sku, quantity, orderSku, elig) ==
    [orderId |-> orderId, customerId |-> customerId, sku |-> sku,
     quantity |-> quantity,
     isEligible |-> elig.isEligible,
     eligibilityReason |-> elig.reason,
     isWithinReturnWindow |-> elig.isWithinReturnWindow,
     isProductReturnable |-> elig.isProductReturnable,
     returnWindowDays |-> elig.returnWindowDays,
     dealerId |-> orderSku.dealerId,
     returnStatus |-> IF elig.isEligible THEN "Validated" ELSE "Requested",
     actionTaken |-> "",
     refund |-> [refundAmount |-> orderSku.selling_price * quantity,
                 refundMethod |-> "", refundStatus |-> "",
                 transactionId |-> 0, refund_id |-> 0, processedBy |-> ""],
     pickupRequest |-> NoPickup,
     inspection |-> NoInspection,
     notes |-> 0,
     timestamps |-> [NoTimestamps EXCEPT !.requestedAt = TRUE,
                                         !.validatedAt = elig.isEligible]]

\* order.skus = order.skus.map(...return_info...); order.save()
MarkReturn(order, sku, id) ==
    [order EXCEPT !.skus[sku].return_id = id]

\* the quantity check with the bug "one item more than ordered is let through"
QuantityExceedsByMoreThanOne(orderSku, quantity) ==
    quantity > orderSku.quantity + 1

\* if (quantity > orderSku.quantity)
QuantityExceeds(orderSku, quantity) ==
    quantity > orderSku.quantity

createError(orderId, sku, id, message, notified) ==
    [sendError("create", id, message, notified)
        EXCEPT !.about = [orderId |-> orderId, sku |-> sku]]

createReturnRequest(orderId, sku, quantity, returnReason, customerId) ==
    /\ IF orderId = 0 \/ sku = "" \/ returnReason = "" \/ customerId = ""
       THEN /\ response' = createError(orderId, sku, 0, MsgMissing, <<>>)
            /\ UNCHANGED <<returns, orders>>
       ELSE IF FindReturn(orderId, sku) # 0
       THEN /\ response' = createError(orderId, sku, 0, MsgExists, <<>>)
            /\ UNCHANGED <<returns, orders>>
       ELSE IF orderId \notin OrderIds
       THEN /\ response' = createError(orderId, sku, 0, MsgOrderNotFound, <<>>)
            /\ UNCHANGED <<returns, orders>>
       ELSE IF orders[orderId].userId # customerId
       THEN /\ response' = createError(orderId, sku, 0, MsgUnauthorized, <<>>)
            /\ UNCHANGED <<returns, orders>>
       ELSE IF ~HasSku(orders[orderId], sku)
       THEN /\ response' = createError(orderId, sku, 0, MsgSkuNotFound, <<>>)
            /\ UNCHANGED <<returns, orders>>
       ELSE IF QuantityExceeds(orders[orderId].skus[sku], quantity)
       THEN /\ response' = createError(orderId, sku, 0, MsgQuantity, <<>>)
            /\ UNCHANGED <<returns, orders>>
       ELSE \E today \in Days, product \in ProductOutcomes,
               borzoOk \in BOOLEAN, notifyOk \in BOOLEAN :
            LET order == orders[orderId]
                elig == validateReturnEligibility(order, sku, today, product)
                returnRequest == NewReturn(orderId, customerId, sku, quantity,
                                           order.skus[sku], elig)
                id == Len(returns) + 1
                created == Append(returns, returnRequest)
            IN /\ Len(returns) < MaxReturns
               /\ orders' = [orders EXCEPT ![orderId] = MarkReturn(@, sku, id)]
               /\ IF ~notifyOk
                  THEN /\ returns' = created
                       /\ response' = createError(orderId, sku, id,
                                                "Failed to create return request", <<>>)
                  ELSE /\ returns' = IF elig.isEligible
                                     THEN schedulePickupInternal(created, id, borzoOk)
                                     ELSE created
                       /\ response' = [sendSuccess("create", id, returnRequest,
                                                   <<"customer">>)
                                         EXCEPT !.about = [orderId |-> orderId,
                                                           sku |-> sku]]
    /\ UNCHANGED <<refunds, gateway, pc, local, slaVars>>

----------------------------------------------------------------------------
(* 2. validateReturnRequest: no check of the current status *)

ValidatedUpdate(doc, elig) ==
    [doc EXCEPT !.isEligible = elig.isEligible,
                !.eligibilityReason = elig.reason,
                !.isWithinReturnWindow = elig.isWithinReturnWindow,
                !.isProductReturnable = elig.isProductReturnable,
                !.returnStatus = IF elig.isEligible THEN "Validated" ELSE "Requested",
                !.timestamps.validatedAt = TRUE]

\* the Return collection validateReturnRequest leaves for document id: the
\* save of the re-evaluated document and, when the notification went out and
\* the request is eligible, the automatic schedulePickup
ValidatedReturns(rs, os, id, today, product, borzoOk, notifyOk) ==
    LET elig == validateReturnEligibility(os[rs[id].orderId], rs[id].sku, today,
                                          product)
        saved == [rs EXCEPT ![id] = ValidatedUpdate(rs[id], elig)]
    IN IF notifyOk /\ elig.isEligible
       THEN schedulePickupInternal(saved, id, borzoOk)
       ELSE saved

validateReturnRequest(id, today, product, borzoOk, notifyOk) ==
    /\ IF id \notin ReturnIds
       THEN /\ response' = sendError("validate", id, MsgReturnNotFound, <<>>)
            /\ UNCHANGED returns
       ELSE LET elig == validateReturnEligibility(orders[returns[id].orderId],
                                                  returns[id].sku, today, product)
                returnRequest == ValidatedUpdate(returns[id], elig)
            IN /\ returns' = ValidatedReturns(returns, orders, id, today, product,
                                              borzoOk, notifyOk)
               /\ response' = IF ~notifyOk
                              THEN sendError("validate", id,
                                             "Failed to validate return request", <<>>)
                              ELSE sendSuccess("validate", id, returnRequest,
                                               <<"customer">>)
    /\ UNCHANGED <<orders, refunds, gateway, pc, local, slaVars>>

----------------------------------------------------------------------------
(* 3. exports.schedulePickup *)

\* returnRequest.returnStatus !== "Validated" refuses
schedulePickupAllowed(doc) == doc.returnStatus = "Validated"

schedulePickup(id, borzoOk, notifyOk) ==
    /\ IF id \notin ReturnIds
       THEN /\ response' = sendError("schedulePickup", id, MsgReturnNotFound, <<>>)
            /\ UNCHANGED returns
       ELSE IF ~schedulePickupAllowed(returns[id])
       THEN /\ response' = sendError("schedulePickup", id, MsgMustValidated, <<>>)
            /\ UNCHANGED returns
       ELSE LET returnRequest == PickupScheduledUpdate(returns[id], borzoOk)
            IN /\ returns' = [returns EXCEPT ![id] = returnRequest]
               /\ response' = IF notifyOk
                              THEN sendSuccess("schedulePickup", id, returnRequest,
                                               <<"customer">>)
                              ELSE sendError("schedulePickup", id,
                                             "Failed to schedule pickup", <<>>)
    /\ UNCHANGED <<orders, refunds, gateway, pc, local, slaVars>>

----------------------------------------------------------------------------
(* 4. completePickup: the notification goes to the dealer, if there is one *)

PickupCompletedUpdate(doc, trackingNumber) ==
    [doc EXCEPT !.returnStatus = "Pickup_Completed",
                !.pickupRequest.completed = TRUE,
                !.pickupRequest.trackingNumber = trackingNumber,
                !.timestamps.pickupCompletedAt = TRUE]

\* returnRequest.returnStatus !== "Pickup_Scheduled" refuses
completePickupAllowed(doc) == doc.returnStatus = "Pickup_Scheduled"

completePickup(id, trackingNumber, notifyOk) ==
    /\ IF id \notin ReturnIds
       THEN /\ response' = sendError("completePickup", id, MsgReturnNotFound, <<>>)
            /\ UNCHANGED returns
       ELSE IF ~completePickupAllowed(returns[id])
       THEN /\ response' = sendError("completePickup", id, MsgMustPickupScheduled, <<>>)
            /\ UNCHANGED returns
       ELSE LET returnRequest == PickupCompletedUpdate(returns[id], trackingNumber)
            IN /\ returns' = [returns EXCEPT ![id] = returnRequest]
               /\ response' =
                    IF returnRequest.dealerId = ""
                    THEN sendSuccess("completePickup", id, returnRequest, <<>>)
                    ELSE IF notifyOk
                    THEN sendSuccess("completePickup", id, returnRequest, <<"dealer">>)
                    ELSE sendError("completePickup", id,
                                   "Failed to complete pickup", <<>>)
    /\ UNCHANGED <<orders, refunds, gateway, pc, local, slaVars>>

----------------------------------------------------------------------------
(* 5. startInspection: sends no notification *)

InspectionStartedUpdate(doc, staffId) ==
    [doc EXCEPT !.returnStatus = "Under_Inspection",
                !.inspection.inspectedBy = staffId,
                !.timestamps.inspectionStartedAt = TRUE]

\* returnRequest.returnStatus !== "Pickup_Completed" refuses
startInspectionAllowed(doc) == doc.returnStatus = "Pickup_Completed"

startInspection(id, staffId) ==
    /\ IF id \notin ReturnIds
       THEN /\ response' = sendError("startInspection", id, MsgReturnNotFound, <<>>)
            /\ UNCHANGED returns
       ELSE IF ~startInspectionAllowed(returns[id])
       THEN /\ response' = sendError("startInspection", id, MsgMustPickupCompleted, <<>>)
            /\ UNCHANGED returns
       ELSE LET returnRequest == InspectionStartedUpdate(returns[id], staffId)
            IN /\ returns' = [returns EXCEPT ![id] = returnRequest]
               /\ response' = sendSuccess("startInspection", id, returnRequest, <<>>)
    /\ UNCHANGED <<orders, refunds, gateway, pc, local, slaVars>>

----------------------------------------------------------------------------
(* 6. completeInspection; findFulfillmentAdmins() returns [] so the admin
      fan-out never sends *)

\* the update with the bug "a damaged item is never approved"
InspectionCompletedUpdateByCondition(doc, isApproved, condition) ==
    LET approved == isApproved /\ condition # "Damaged"
    IN [doc EXCEPT !.inspection.isApproved = IF isApproved THEN "true" ELSE "false",
                   !.inspection.condition = condition,
                   !.timestamps.inspectionCompletedAt = TRUE,
                   !.returnStatus = IF approved THEN "Approved" ELSE "Rejected",
                   !.actionTaken = IF approved THEN "Refund" ELSE "Rejected"]

InspectionCompletedUpdate(doc, isApproved, condition) ==
    [doc EXCEPT !.inspection.isApproved = IF isApproved THEN "true" ELSE "false",
                !.inspection.condition = condition,
                !.timestamps.inspectionCompletedAt = TRUE,
                !.returnStatus = IF isApproved THEN "Approved" ELSE "Rejected",
                !.actionTaken = IF isApproved THEN "Refund" ELSE "Rejected"]

\* returnRequest.returnStatus !== "Under_Inspection" refuses
completeInspectionAllowed(doc) == doc.returnStatus = "Under_Inspection"

completeInspection(id, isApproved, condition, notifyOk) ==
    /\ IF id \notin ReturnIds
       THEN /\ response' = sendError("completeInspection", id, MsgReturnNotFound, <<>>)
            /\ UNCHANGED returns
       ELSE IF ~completeInspectionAllowed(returns[id])
       THEN /\ response' = sendError("completeInspection", id, MsgMustUnderInspection, <<>>)
            /\ UNCHANGED returns
       ELSE LET returnRequest == InspectionCompletedUpdate(returns[id], isApproved, condition)
            IN /\ returns' = [returns EXCEPT ![id] = returnRequest]
               /\ response' = IF notifyOk
                              THEN sendSuccess("completeInspection", id, returnRequest,
                                               <<"customer">>)
                              ELSE sendError("completeInspection", id,
                                             "Failed to complete inspection", <<>>)
    /\ UNCHANGED <<orders, refunds, gateway, pc, local, slaVars>>

----------------------------------------------------------------------------
(* 8. completeReturn *)

\* the update with the bug "the completion is not stamped"
CompletedUpdateNoStamp(doc) ==
    [doc EXCEPT !.returnStatus = "Completed"]

CompletedUpdate(doc) ==
    [doc EXCEPT !.returnStatus = "Completed", !.timestamps.completedAt = TRUE]

\* the guard with the bug "completion is allowed once the return is approved"
completeReturnAllowedOnceApproved(doc) ==
    doc.returnStatus \in {"Approved", "Refund_Processed"}

\* returnRequest.returnStatus !== "Refund_Processed" refuses
completeReturnAllowed(doc) == doc.returnStatus = "Refund_Processed"

completeReturn(id, notifyOk) ==
    /\ IF id \notin ReturnIds
       THEN /\ response' = sendError("completeReturn", id, MsgReturnNotFound, <<>>)
            /\ UNCHANGED returns
       ELSE IF ~completeReturnAllowed(returns[id])
       THEN /\ response' = sendError("completeReturn", id, MsgMustRefundProcessed, <<>>)
            /\ UNCHANGED returns
       ELSE LET returnRequest == CompletedUpdate(returns[id])
            IN /\ returns' = [returns EXCEPT ![id] = returnRequest]
               /\ response' = IF notifyOk
                              THEN sendSuccess("completeReturn", id, returnRequest,
                                               <<"customer">>)
                              ELSE sendError("completeReturn", id,
                                             "Failed to complete return", <<>>)
    /\ UNCHANGED <<orders, refunds, gateway, pc, local, slaVars>>

----------------------------------------------------------------------------
(* addNote *)

addNote(id) ==
    /\ IF id \notin ReturnIds
       THEN /\ response' = sendError("addNote", id, MsgReturnNotFound, <<>>)
            /\ UNCHANGED returns
       ELSE /\ returns[id].notes < MaxNotes
            /\ returns' = [returns EXCEPT ![id].notes = @ + 1]
            /\ response' = sendSuccess("addNote", id, returns'[id], <<>>)
    /\ UNCHANGED <<orders, refunds, gateway, pc, local, slaVars>>

----------------------------------------------------------------------------
(* Refund processor *)

RECURSIVE AmountRefunded(_, _)
\* paymentDetails.amount_refunded: what the provider already refunded to the
\* source of this order's payment
AmountRefunded(gw, orderId) ==
    IF gw = <<>> THEN 0
    ELSE LET e == gw[Len(gw)]
             rest == AmountRefunded(SubSeq(gw, 1, Len(gw) - 1), orderId)
         IN IF e.kind = "refund" /\ e.order_id = orderId THEN rest + e.amount ELSE rest

\* Math.round(refundAmount * 100)
ToPaise(rupees) == rupees * 100

RefundFailure(gw, led, refund_id, message) ==
    [success |-> FALSE, transactionId |-> 0, refundType |-> "", message |-> message,
     gateway |-> gw, refunds |-> led, refund_id |-> refund_id]

\* the checks with the bug "a refund answered with status failed is not
\* treated as an error"
SourceRefundErrorIgnoringStatus(payment, refundOutcome, requestedRefundAmount, refundableBalance) ==
    IF ~payment.hasPaymentId THEN "Payment ID not found"
    ELSE IF refundOutcome = "lookup_failed" THEN "payment lookup failed"
    ELSE IF requestedRefundAmount > refundableBalance THEN "exceeds available balance"
    ELSE IF refundOutcome = "rejected" THEN "refund call rejected"
    ELSE ""

\* the checks with the bug "what was refunded before is not counted"
SourceRefundErrorIgnoringRefunded(payment, refundOutcome, requestedRefundAmount, refundableBalance) ==
    IF ~payment.hasPaymentId THEN "Payment ID not found"
    ELSE IF refundOutcome = "lookup_failed" THEN "payment lookup failed"
    ELSE IF requestedRefundAmount > payment.amount THEN "exceeds available balance"
    ELSE IF refundOutcome = "rejected" THEN "refund call rejected"
    ELSE IF refundOutcome = "failed" THEN "Refund failed"
    ELSE ""

\* The throws of the source-refund path before the refund record is built
\* (lines 1620-1678), in the order the code reaches them; "" when none.
SourceRefundError(payment, refundOutcome, requestedRefundAmount, refundableBalance) ==
    IF ~payment.hasPaymentId THEN "Payment ID not found"
    ELSE IF refundOutcome = "lookup_failed" THEN "payment lookup failed"
    ELSE IF requestedRefundAmount > refundableBalance THEN "exceeds available balance"
    ELSE IF refundOutcome = "rejected" THEN "refund call rejected"
    ELSE IF refundOutcome = "failed" THEN "Refund failed"
    ELSE ""

\* The part of processRefundPayment after the bank-payout block (lines
\* 1617-1707) and its catch (1708-1719); gw: the gateway as the payout block
\* left it.  The provider refunds when it answers "processed" (also when the
\* refund record then fails to save); the id in its answer is the next id.
SourceRefund(id, doc, payment, refundOutcome, gw, led) ==
    LET requestedRefundAmount == ToPaise(doc.refund.refundAmount)
        refundableBalance == payment.amount - AmountRefunded(gw, doc.orderId)
        error == SourceRefundError(payment, refundOutcome, requestedRefundAmount,
                                   refundableBalance)
        accepted == IF refundOutcome \in {"processed", "ledger_failed"}
                    THEN Append(gw, [kind |-> "refund", return_id |-> id,
                                     order_id |-> doc.orderId,
                                     amount |-> requestedRefundAmount])
                    ELSE gw
        refundRecord == [return_id |-> id, order_id |-> doc.orderId,
                         refund_type |-> "Refund-Online",
                         provider_id |-> Len(gw) + 1,
                         amount |-> doc.refund.refundAmount]
    IN IF error # ""
       THEN RefundFailure(gw, led, doc.refund.refund_id, error)
       ELSE IF refundOutcome = "ledger_failed"
       THEN RefundFailure(accepted, led, doc.refund.refund_id, "refund record not saved")
       ELSE [success |-> TRUE, transactionId |-> Len(gw) + 1,
             refundType |-> "Source_Refund", message |-> "",
             gateway |-> accepted, refunds |-> Append(led, refundRecord),
             refund_id |-> Len(led) + 1]

\* the selection with the bug "a Wallet refund never goes to the bank"
UseBankPayoutNotForWallet(userOutcome, refundMethod, payment) ==
    /\ userOutcome = "bank"
    /\ \/ refundMethod = "Bank_Account"
       \/ ~payment.hasPaymentId

\* hasBankAccount && (refundMethod is Bank_Account or Wallet || !payment.payment_id)
UseBankPayout(userOutcome, refundMethod, payment) ==
    /\ userOutcome = "bank"
    /\ \/ refundMethod = "Bank_Account"
       \/ refundMethod = "Wallet"
       \/ ~payment.hasPaymentId

\* the processor with the bug "a failed payout is reported, not retried on
\* the source-refund path"
processRefundPaymentNoFallback(id, doc, refundMethod, payment, userOutcome, payoutOutcome, refundOutcome, gw, led) ==
    LET paid == Append(gw, [kind |-> "payout", return_id |-> id,
                            order_id |-> doc.orderId,
                            amount |-> ToPaise(doc.refund.refundAmount)])
        refundRecord == [return_id |-> id, order_id |-> doc.orderId,
                         refund_type |-> "Refund-COD",
                         provider_id |-> Len(paid),
                         amount |-> doc.refund.refundAmount]
    IN IF ~payment.exists
       THEN RefundFailure(gw, led, doc.refund.refund_id, "Payment not found for order")
       ELSE IF UseBankPayout(userOutcome, refundMethod, payment)
       THEN IF payoutOutcome = "ok"
            THEN [success |-> TRUE, transactionId |-> Len(paid),
                  refundType |-> "Bank_Payout", message |-> "",
                  gateway |-> paid, refunds |-> Append(led, refundRecord),
                  refund_id |-> Len(led) + 1]
            ELSE IF payoutOutcome = "ledger_failed"
            THEN RefundFailure(paid, led, doc.refund.refund_id, "payout record not saved")
            ELSE RefundFailure(gw, led, doc.refund.refund_id, "payout failed")
       ELSE SourceRefund(id, doc, payment, refundOutcome, gw, led)

\* processRefundPayment(returnRequest, refundMethod, authToken): the result it
\* returns, with the gateway, the ledger and refund.refund_id as it leaves them
processRefundPayment(id, doc, refundMethod, payment, userOutcome, payoutOutcome, refundOutcome, gw, led) ==
    LET paid == Append(gw, [kind |-> "payout", return_id |-> id,
                            order_id |-> doc.orderId,
                            amount |-> ToPaise(doc.refund.refundAmount)])
        refundRecord == [return_id |-> id, order_id |-> doc.orderId,
                         refund_type |-> "Refund-COD",
                         provider_id |-> Len(paid),
                         amount |-> doc.refund.refundAmount]
    IN IF ~payment.exists
       THEN RefundFailure(gw, led, doc.refund.refund_id, "Payment not found for order")
       ELSE IF UseBankPayout(userOutcome, refundMethod, payment)
       THEN IF payoutOutcome = "ok"
            THEN [success |-> TRUE, transactionId |-> Len(paid),
                  refundType |-> "Bank_Payout", message |-> "",
                  gateway |-> paid, refunds |-> Append(led, refundRecord),
                  refund_id |-> Len(led) + 1]
            ELSE IF payoutOutcome = "ledger_failed"
            THEN SourceRefund(id, doc, payment, refundOutcome, paid, led)
            ELSE SourceRefund(id, doc, payment, refundOutcome, gw, led)
       ELSE SourceRefund(id, doc, payment, refundOutcome, gw, led)

----------------------------------------------------------------------------
(* 7. processRefund *)

\* the guard with the bug "a refund is allowed whenever the action is Refund"
processRefundAllowedByAction(doc) == doc.actionTaken = "Refund"

\* returnRequest.returnStatus !== "Approved" refuses
processRefundAllowed(doc) == doc.returnStatus = "Approved"

\* the update with the bug "the transaction id is not stored"
RefundProcessedUpdateNoTransaction(doc, adminId, refundMethod, transactionId) ==
    [doc EXCEPT !.returnStatus = "Refund_Processed",
                !.refund.processedBy = adminId,
                !.refund.refundMethod = refundMethod,
                !.refund.refundStatus = "Completed",
                !.timestamps.refundProcessedAt = TRUE]

RefundProcessedUpdate(doc, adminId, refundMethod, transactionId) ==
    [doc EXCEPT !.returnStatus = "Refund_Processed",
                !.refund.processedBy = adminId,
                !.refund.refundMethod = refundMethod,
                !.refund.refundStatus = "Completed",
                !.refund.transactionId = transactionId,
                !.timestamps.refundProcessedAt = TRUE]

\* what processRefund leaves of the document once the processor has
\* returned: nothing but the ledger reference the processor itself stored
\* when it failed, the refund sub-record and the new status when it succeeded
RefundHandled(doc, refundResult, adminId, refundMethod) ==
    LET withLedgerRef == [doc EXCEPT !.refund.refund_id = refundResult.refund_id]
    IN IF ~refundResult.success THEN withLedgerRef
       ELSE RefundProcessedUpdate(withLedgerRef, adminId, refundMethod,
                                  refundResult.transactionId)

processRefund(id, adminId) ==
    /\ IF id \notin ReturnIds
       THEN /\ response' = sendError("processRefund", id, MsgReturnNotFound, <<>>)
            /\ UNCHANGED <<returns, refunds, gateway>>
       ELSE IF ~processRefundAllowed(returns[id])
       THEN /\ response' = sendError("processRefund", id, MsgMustApproved, <<>>)
            /\ UNCHANGED <<returns, refunds, gateway>>
       ELSE \E refundMethod \in RefundMethods, payment \in PaymentChoices,
               userOutcome \in UserOutcomes,
               payoutOutcome \in PayoutOutcomes, refundOutcome \in RefundOutcomes,
               notifyOk \in BOOLEAN :
            LET refundResult == processRefundPayment(id, returns[id], refundMethod,
                                    payment, userOutcome, payoutOutcome, refundOutcome,
                                    gateway, refunds)
                returnRequest == RefundHandled(returns[id], refundResult, adminId,
                                               refundMethod)
            IN /\ Len(gateway) < MaxGateway
               /\ gateway' = refundResult.gateway
               /\ refunds' = refundResult.refunds
               /\ returns' = [returns EXCEPT ![id] = returnRequest]
               /\ IF ~refundResult.success
                  THEN response' = sendError("processRefund", id, MsgRefundFailed, <<>>)
                  ELSE response' = IF notifyOk
                                   THEN sendSuccess("processRefund", id, returnRequest,
                                                    <<"customer">>)
                                   ELSE sendError("processRefund", id,
                                                  "Failed to process refund", <<>>)
    /\ UNCHANGED <<orders, pc, local, slaVars>>

----------------------------------------------------------------------------
(* Handlers one after another *)

\* the response leaves the handler and the request ends
endRequest ==
    /\ response # NoResponse
    /\ response' = NoResponse
    /\ UNCHANGED <<returns, orders, refunds, gateway, pc, local, slaVars>>

\* no request is being served
Ready == response = NoResponse

Next ==
    \/ endRequest
    \/ Ready /\ \E body \in CreateInputs :
          createReturnRequest(body.orderId, body.sku, body.quantity,
                              body.returnReason, body.customerId)
    \/ Ready /\ \E id \in 1..MaxReturns, today \in Days, product \in ProductOutcomes,
          borzoOk \in BOOLEAN, notifyOk \in BOOLEAN :
          validateReturnRequest(id, today, product, borzoOk, notifyOk)
    \/ Ready /\ \E id \in 1..MaxReturns, borzoOk \in BOOLEAN, notifyOk \in BOOLEAN :
          schedulePickup(id, borzoOk, notifyOk)
    \/ Ready /\ \E id \in 1..MaxReturns, notifyOk \in BOOLEAN :
          completePickup(id, "TRK_carrier", notifyOk)
    \/ Ready /\ \E id \in 1..MaxReturns : startInspection(id, "staff1")
    \/ Ready /\ \E id \in 1..MaxReturns, isApproved \in BOOLEAN,
          condition \in {"Good", "Damaged"}, notifyOk \in BOOLEAN :
          completeInspection(id, isApproved, condition, notifyOk)
    \/ Ready /\ \E id \in 1..MaxReturns : processRefund(id, "admin1")
    \/ Ready /\ \E id \in 1..MaxReturns, notifyOk \in BOOLEAN : completeReturn(id, notifyOk)
    \/ Ready /\ \E id \in 1..MaxReturns : addNote(id)

Spec == Init /\ [][Next]_vars

----------------------------------------------------------------------------
(* Two requests at a time.  A handler awaits Return.findById, then its
   collaborators, then returnRequest.save(); other requests run at each
   await.  save() sends the paths the handler assigned as one $set, without
   a condition on the status or the version the handler read, so the
   handler's Update applies to whatever document the store holds by then. *)

\* a return of item "A" on which startInspection has just succeeded
UnderInspection ==
    LET order == [userId |-> Customer,
                  skus |-> [s \in SKUs |-> IF s = "A" THEN OrderItem(2, DeliveredDay)
                                                      ELSE OrderItem(1, 0)]]
        elig == validateReturnEligibility(order, "A", DeliveredDay + ReturnWindowDays,
                                          "returnable")
        created == NewReturn(1, Customer, "A", 1, order.skus["A"], elig)
    IN InspectionStartedUpdate(
           PickupCompletedUpdate(PickupScheduledUpdate(created, TRUE), "TRK_carrier"),
           "staff1")

InitConc ==
    /\ returns = <<UnderInspection>>
    /\ orders = [o \in OrderIds |->
                   [userId |-> Customer,
                    skus |-> [s \in SKUs |->
                                IF s = "A" THEN [OrderItem(2, DeliveredDay)
                                                   EXCEPT !.return_id = 1]
                                           ELSE OrderItem(1, 0)]]]
    /\ refunds = <<>>
    /\ gateway = <<>>
    /\ response = NoResponse
    /\ pc = [w \in Workers |-> "idle"]
    /\ local = [w \in Workers |-> IdleLocal]
    /\ violations = <<>>
    /\ dealerSlas = <<>>

\* completeInspection up to its status check (lines 448-458)
completeInspectionRead(w, id) ==
    /\ pc[w] = "idle"
    /\ id \in ReturnIds
    /\ IF ~completeInspectionAllowed(returns[id])
       THEN /\ local' = [local EXCEPT ![w] =
                  [IdleLocal EXCEPT !.response =
                      sendError("completeInspection", id, MsgMustUnderInspection, <<>>)]]
            /\ pc' = pc
       ELSE /\ local' = [local EXCEPT ![w] =
                  [IdleLocal EXCEPT !.id = id, !.doc = returns[id]]]
            /\ pc' = [pc EXCEPT ![w] = "inspection_read"]
    /\ UNCHANGED <<returns, orders, refunds, gateway, response, slaVars>>

\* completeInspection from its assignments to its response (lines 460-519)
completeInspectionSave(w, isApproved, condition, notifyOk) ==
    /\ pc[w] = "inspection_read"
    /\ LET id == local[w].id
           returnRequest == InspectionCompletedUpdate(local[w].doc, isApproved, condition)
       IN /\ returns' = [returns EXCEPT ![id] =
                            InspectionCompletedUpdate(@, isApproved, condition)]
          /\ local' = [local EXCEPT ![w] =
                [IdleLocal EXCEPT !.response =
                    IF notifyOk
                    THEN sendSuccess("completeInspection", id, returnRequest,
                                     <<"customer">>)
                    ELSE sendError("completeInspection", id,
                                   "Failed to complete inspection", <<>>)]]
    /\ pc' = [pc EXCEPT ![w] = "idle"]
    /\ UNCHANGED <<orders, refunds, gateway, response, slaVars>>

\* processRefund up to its status check (lines 538-548)
processRefundRead(w, id) ==
    /\ pc[w] = "idle"
    /\ id \in ReturnIds
    /\ IF ~processRefundAllowed(returns[id])
       THEN /\ local' = [local EXCEPT ![w] =
                  [IdleLocal EXCEPT !.response =
                      sendError("processRefund", id, MsgMustApproved, <<>>)]]
            /\ pc' = pc
       ELSE /\ local' = [local EXCEPT ![w] =
                  [IdleLocal EXCEPT !.id = id, !.doc = returns[id]]]
            /\ pc' = [pc EXCEPT ![w] = "refund_read"]
    /\ UNCHANGED <<returns, orders, refunds, gateway, response, slaVars>>

\* await processRefundPayment(...) and the check of its result (lines 550-562)
processRefundPay(w, refundMethod, payment, userOutcome, payoutOutcome, refundOutcome) ==
    /\ pc[w] = "refund_read"
    /\ Len(gateway) < MaxGateway
    /\ LET id == local[w].id
           refundResult == processRefundPayment(id, local[w].doc, refundMethod,
                               payment, userOutcome, payoutOutcome, refundOutcome,
                               gateway, refunds)
       IN /\ gateway' = refundResult.gateway
          /\ refunds' = refundResult.refunds
          /\ IF ~refundResult.success
             THEN /\ returns' = returns
                  /\ local' = [local EXCEPT ![w] =
                        [IdleLocal EXCEPT !.response =
                            sendError("processRefund", id, MsgRefundFailed, <<>>)]]
                  /\ pc' = [pc EXCEPT ![w] = "idle"]
             ELSE /\ returns' = [returns EXCEPT ![id].refund.refund_id =
                                                   refundResult.refund_id]
                  /\ local' = [local EXCEPT ![w] =
                        [@ EXCEPT !.doc.refund.refund_id = refundResult.refund_id,
                                  !.refundMethod = refundMethod,
                                  !.transactionId = refundResult.transactionId]]
                  /\ pc' = [pc EXCEPT ![w] = "refund_paid"]
    /\ UNCHANGED <<orders, response, slaVars>>

\* processRefund from its assignments to its response (lines 564-589)
processRefundSave(w, adminId, notifyOk) ==
    /\ pc[w] = "refund_paid"
    /\ LET id == local[w].id
           returnRequest == RefundProcessedUpdate(local[w].doc, adminId,
                                local[w].refundMethod, local[w].transactionId)
       IN /\ returns' = [returns EXCEPT ![id] =
                            RefundProcessedUpdate(@, adminId, local[w].refundMethod,
                                                  local[w].transactionId)]
          /\ local' = [local EXCEPT ![w] =
                [IdleLocal EXCEPT !.response =
                    IF notifyOk
                    THEN sendSuccess("processRefund", id, returnRequest, <<"customer">>)
                    ELSE sendError("processRefund", id, "Failed to process refund", <<>>)]]
    /\ pc' = [pc EXCEPT ![w] = "idle"]
    /\ UNCHANGED <<orders, refunds, gateway, response, slaVars>>

NextConc ==
    \/ \E w \in Workers, id \in 1..MaxReturns : completeInspectionRead(w, id)
    \/ \E w \in Workers, isApproved \in BOOLEAN, condition \in {"Good", "Damaged"},
          notifyOk \in BOOLEAN :
          completeInspectionSave(w, isApproved, condition, notifyOk)
    \/ \E w \in Workers, id \in 1..MaxReturns : processRefundRead(w, id)
    \/ \E w \in Workers, refundMethod \in RefundMethods, payment \in PaymentChoices,
          userOutcome \in UserOutcomes, payoutOutcome \in PayoutOutcomes,
          refundOutcome \in RefundOutcomes :
          processRefundPay(w, refundMethod, payment, userOutcome, payoutOutcome,
                           refundOutcome)
    \/ \E w \in Workers, notifyOk \in BOOLEAN : processRefundSave(w, "admin1", notifyOk)

SpecConc == InitConc /\ [][NextConc]_vars

----------------------------------------------------------------------------
(* Two creates at a time.  createReturnRequest awaits Return.findOne and
   Order.findById (its checks), then the product service, Return.create and
   order.save(), then the notification and the automatic pickup; other
   requests run at each await.  The Return model is not part of these
   sources: its unique index on (orderId, sku) is taken from the persisted
   state layout of the specification. *)

\* the store without the index: every insert is taken
ReturnInsertAllowedNoIndex(rs, orderId, sku) == TRUE

\* unique index on (orderId, sku) of the Return collection
ReturnInsertAllowed(rs, orderId, sku) ==
    \A i \in 1..Len(rs) : ~(rs[i].orderId = orderId /\ rs[i].sku = sku)

\* request bodies of the concurrent creates: both items of the order
ConcCreateInputs == {CreateBody(1, s, 1, "damaged", Customer) : s \in SKUs}

\* what a create holds between its steps: its body, the order it read, the
\* _id and the eligibility of the document it created
IdleCreate == [body |-> CreateBody(0, "", 0, "", ""), order |-> [skus |-> <<>>],
               id |-> 0, isEligible |-> FALSE, response |-> NoResponse]

InitCreate ==
    /\ returns = <<>>
    /\ orders = [o \in OrderIds |->
                   [userId |-> Customer,
                    skus |-> [s \in SKUs |-> OrderItem(2, DeliveredDay)]]]
    /\ refunds = <<>>
    /\ gateway = <<>>
    /\ response = NoResponse
    /\ pc = [w \in Workers |-> "idle"]
    /\ local = [w \in Workers |-> IdleCreate]
    /\ violations = <<>>
    /\ dealerSlas = <<>>

\* createReturnRequest up to its last check (lines 113-149)
createCheck(w, body) ==
    /\ pc[w] = "idle"
    /\ LET refusal ==
             IF body.orderId = 0 \/ body.sku = "" \/ body.returnReason = ""
                \/ body.customerId = "" THEN MsgMissing
             ELSE IF FindReturn(body.orderId, body.sku) # 0 THEN MsgExists
             ELSE IF body.orderId \notin OrderIds THEN MsgOrderNotFound
             ELSE IF orders[body.orderId].userId # body.customerId THEN MsgUnauthorized
             ELSE IF ~HasSku(orders[body.orderId], body.sku) THEN MsgSkuNotFound
             ELSE IF QuantityExceeds(orders[body.orderId].skus[body.sku], body.quantity)
             THEN MsgQuantity
             ELSE ""
       IN IF refusal # ""
          THEN /\ local' = [local EXCEPT ![w] =
                     [IdleCreate EXCEPT !.response =
                         createError(body.orderId, body.sku, 0, refusal, <<>>)]]
               /\ pc' = pc
          ELSE /\ local' = [local EXCEPT ![w] =
                     [IdleCreate EXCEPT !.body = body, !.order = orders[body.orderId]]]
               /\ pc' = [pc EXCEPT ![w] = "create_checked"]
    /\ UNCHANGED <<returns, orders, refunds, gateway, response, slaVars>>

\* validateReturnEligibility, Return.create, order.save() (lines 152-191);
\* an insert the index refuses throws into the catch of the handler
createPersist(w, today, product) ==
    /\ pc[w] = "create_checked"
    /\ LET body == local[w].body
           order == local[w].order
           elig == validateReturnEligibility(order, body.sku, today, product)
           returnRequest == NewReturn(body.orderId, body.customerId, body.sku,
                                      body.quantity, order.skus[body.sku], elig)
           id == Len(returns) + 1
       IN IF ~ReturnInsertAllowed(returns, body.orderId, body.sku)
          THEN /\ local' = [local EXCEPT ![w] =
                     [IdleCreate EXCEPT !.response =
                         createError(body.orderId, body.sku, 0,
                                     "Failed to create return request", <<>>)]]
               /\ pc' = [pc EXCEPT ![w] = "idle"]
               /\ UNCHANGED <<returns, orders>>
          ELSE /\ Len(returns) < MaxReturns
               /\ returns' = Append(returns, returnRequest)
               /\ orders' = [orders EXCEPT ![body.orderId] = MarkReturn(order, body.sku, id)]
               /\ local' = [local EXCEPT ![w] =
                     [@ EXCEPT !.id = id, !.isEligible = elig.isEligible]]
               /\ pc' = [pc EXCEPT ![w] = "create_persisted"]
    /\ UNCHANGED <<refunds, gateway, response, slaVars>>

\* the notification, the automatic pickup and the response (lines 193-216)
createFinish(w, borzoOk, notifyOk) ==
    /\ pc[w] = "create_persisted"
    /\ LET body == local[w].body
           id == local[w].id
       IN IF ~notifyOk
          THEN /\ returns' = returns
               /\ local' = [local EXCEPT ![w] =
                     [IdleCreate EXCEPT !.response =
                         createError(body.orderId, body.sku, id,
                                     "Failed to create return request", <<>>)]]
          ELSE /\ returns' = IF local[w].isEligible
                             THEN schedulePickupInternal(returns, id, borzoOk)
                             ELSE returns
               /\ local' = [local EXCEPT ![w] =
                     [IdleCreate EXCEPT !.response =
                         [sendSuccess("create", id,
                                      [returnStatus |-> IF local[w].isEligible
                                                        THEN "Validated"
                                                        ELSE "Requested"],
                                      <<"customer">>)
                            EXCEPT !.about = [orderId |-> body.orderId,
                                              sku |-> body.sku]]]]
    /\ pc' = [pc EXCEPT ![w] = "idle"]
    /\ UNCHANGED <<orders, refunds, gateway, response, slaVars>>

NextCreate ==
    \/ \E w \in Workers, body \in ConcCreateInputs : createCheck(w, body)
    \/ \E w \in Workers, today \in Days, product \in ProductOutcomes :
          createPersist(w, today, product)
    \/ \E w \in Workers, borzoOk \in BOOLEAN, notifyOk \in BOOLEAN :
          createFinish(w, borzoOk, notifyOk)

SpecCreate == InitCreate /\ [][NextCreate]_vars

----------------------------------------------------------------------------
(* SLA violation engine (utils/slaViolationUtils.js and the middleware in
   controllers/return.js).

   A Date is the number of seconds since midnight of day 0, local time;
   NullTime stands for null.  An order of the engine carries orderDate,
   status, dealerMapping (a list of [sku, dealerId]), skus (a list of
   [sku, status, packedAt, dealerMapped]) and slaInfo; "" stands for a
   missing dealer id or sku.  Reads and writes of the store are taken to
   succeed, except an insert the unique index refuses. *)

NullTime == -1

NoDealerSLA == [found |-> FALSE, is_active |-> FALSE, has_sla_type |-> FALSE,
                expected_hours |-> 0, has_dispatch_hours |-> FALSE,
                start |-> 0, end |-> 0]

\* DealerSLA.findOne({ dealer_id }).populate('sla_type')
FindDealerSLA(slas, dealerId) ==
    IF dealerId \in DOMAIN slas THEN slas[dealerId] ELSE NoDealerSLA

\* Date.getHours()
GetHours(t) == (t \div 3600) % 24

\* Date.setHours(h, 0, 0, 0) on the day of t
AtHourOfDay(t, h) == (t \div 86400) * 86400 + h * 3600

\* the calculator with the bug "a time after the window is set back to the
\* start of the window on the same day"
calculateExpectedFulfillmentTimeSameDay(orderDate, dealerSLA) ==
    IF ~dealerSLA.found \/ ~dealerSLA.has_sla_type
    THEN NullTime
    ELSE LET expectedTime == orderDate + dealerSLA.expected_hours * 3600
             fulfillmentHour == GetHours(expectedTime)
         IN IF ~dealerSLA.has_dispatch_hours THEN expectedTime
            ELSE IF fulfillmentHour < dealerSLA.start
            THEN AtHourOfDay(expectedTime, dealerSLA.start)
            ELSE IF fulfillmentHour > dealerSLA.end
            THEN AtHourOfDay(expectedTime, dealerSLA.start)
            ELSE expectedTime

calculateExpectedFulfillmentTime(orderDate, dealerSLA) ==
    IF ~dealerSLA.found \/ ~dealerSLA.has_sla_type
    THEN NullTime
    ELSE LET expectedTime == orderDate + dealerSLA.expected_hours * 3600
             fulfillmentHour == GetHours(expectedTime)
         IN IF ~dealerSLA.has_dispatch_hours THEN expectedTime
            ELSE IF fulfillmentHour < dealerSLA.start
            THEN AtHourOfDay(expectedTime, dealerSLA.start)
            ELSE IF fulfillmentHour > dealerSLA.end
            THEN AtHourOfDay(expectedTime + 86400, dealerSLA.start)
            ELSE expectedTime

\* order.skus.find(s => s.sku === sku): the index of the item, 0 if none
FindSku(order, sku) ==
    IF \E i \in 1..Len(order.skus) : order.skus[i].sku = sku
    THEN CHOOSE i \in 1..Len(order.skus) :
            /\ order.skus[i].sku = sku
            /\ \A j \in 1..(i - 1) : order.skus[j].sku # sku
    ELSE 0

\* skuItem.dealerMapped?.[0]?.dealerId
\*   || order.dealerMapping.find(dm => dm.sku === sku)?.dealerId
\*   || order.dealerMapping[0]?.dealerId
ResolveDealer(order, skuItem) ==
    LET mapped == {i \in 1..Len(order.dealerMapping) :
                      order.dealerMapping[i].sku = skuItem.sku}
        first == IF mapped = {} THEN 0
                 ELSE CHOOSE i \in mapped : \A j \in mapped : i <= j
    IN IF skuItem.dealerMapped # "" THEN skuItem.dealerMapped
       ELSE IF first # 0 /\ order.dealerMapping[first].dealerId # ""
       THEN order.dealerMapping[first].dealerId
       ELSE order.dealerMapping[1].dealerId

\* Math.round((packedAtDate - expectedFulfillmentTime) / (1000 * 60))
ViolationMinutes(packedAt, expectedFulfillmentTime) ==
    (packedAt - expectedFulfillmentTime + 30) \div 60

NoSkuCheck == [hasViolation |-> FALSE,
               violation |-> [dealer_id |-> "", order_id |-> 0, sku |-> "",
                              expected_fulfillment_time |-> NullTime,
                              actual_fulfillment_time |-> NullTime,
                              violation_minutes |-> 0]]

checkSKUSLAViolation(orderId, order, sku, packedAt, slas) ==
    IF Len(order.dealerMapping) = 0 THEN NoSkuCheck
    ELSE IF FindSku(order, sku) = 0 THEN NoSkuCheck
    ELSE LET dealerId == ResolveDealer(order, order.skus[FindSku(order, sku)])
             dealerSLA == FindDealerSLA(slas, dealerId)
             expectedFulfillmentTime ==
                 calculateExpectedFulfillmentTime(order.orderDate, dealerSLA)
             violationMinutes == ViolationMinutes(packedAt, expectedFulfillmentTime)
         IN IF dealerId = "" THEN NoSkuCheck
            ELSE IF ~dealerSLA.found \/ ~dealerSLA.is_active THEN NoSkuCheck
            ELSE IF expectedFulfillmentTime = NullTime THEN NoSkuCheck
            ELSE IF violationMinutes > 0
            THEN [hasViolation |-> TRUE,
                  violation |-> [dealer_id |-> dealerId, order_id |-> orderId,
                                 sku |-> sku,
                                 expected_fulfillment_time |-> expectedFulfillmentTime,
                                 actual_fulfillment_time |-> packedAt,
                                 violation_minutes |-> violationMinutes]]
            ELSE NoSkuCheck

\* order.skus.filter(s => s.tracking_info?.status === "Packed"
\*                        && s.tracking_info?.timestamps?.packedAt)
PackedSkus(order) ==
    SelectSeq(order.skus, LAMBDA s : s.status = "Packed" /\ s.packedAt # NullTime)

NoSlaCheck == [hasViolation |-> FALSE, hasAggregate |-> FALSE,
               violation |-> NoSkuCheck.violation, skuViolations |-> <<>>,
               allSkusViolated |-> FALSE]

\* max?.violation_minutes || 0 in the reduce: max is null or an entry
\* {sku, violation} of skuViolations, which has no violation_minutes itself
AccumulatorMinutes(max) == 0

\* skuViolations.reduce((max, sv) => sv.violation.violation_minutes >
\*     (max?.violation_minutes || 0) ? sv : max, null); 0 stands for null
RECURSIVE ReduceMaxViolation(_, _, _)
ReduceMaxViolation(skuViolations, i, max) ==
    IF i > Len(skuViolations) THEN max
    ELSE ReduceMaxViolation(skuViolations, i + 1,
             IF skuViolations[i].violation_minutes > AccumulatorMinutes(max)
             THEN i ELSE max)

\* the all-SKU mode with the bug "one late SKU is enough for the order"
checkAllSkusAnyViolated(orderId, order, slas) ==
    LET packedSkus == PackedSkus(order)
        checks == [i \in 1..Len(packedSkus) |->
                      checkSKUSLAViolation(orderId, order, packedSkus[i].sku,
                                           packedSkus[i].packedAt, slas)]
        violated == SelectSeq(checks, LAMBDA c : c.hasViolation)
        skuViolations == [i \in 1..Len(violated) |-> violated[i].violation]
        maxViolation == ReduceMaxViolation(skuViolations, 1, 0)
    IN IF Len(packedSkus) = 0 THEN NoSlaCheck
       ELSE IF Len(skuViolations) > 0
       THEN [hasViolation |-> TRUE, hasAggregate |-> maxViolation # 0,
             violation |-> IF maxViolation # 0
                           THEN [skuViolations[maxViolation] EXCEPT !.sku = ""]
                           ELSE NoSkuCheck.violation,
             skuViolations |-> skuViolations, allSkusViolated |-> TRUE]
       ELSE [NoSlaCheck EXCEPT !.skuViolations = skuViolations]

\* checkSLAViolationOnPacking(order, packedAt) without a sku (lines 154-216)
checkAllSkus(orderId, order, slas) ==
    LET packedSkus == PackedSkus(order)
        checks == [i \in 1..Len(packedSkus) |->
                      checkSKUSLAViolation(orderId, order, packedSkus[i].sku,
                                           packedSkus[i].packedAt, slas)]
        violated == SelectSeq(checks, LAMBDA c : c.hasViolation)
        skuViolations == [i \in 1..Len(violated) |-> violated[i].violation]
        hasAnyViolation == Len(skuViolations) > 0
        allSkusViolated == \A i \in 1..Len(checks) : checks[i].hasViolation
        orderViolated == /\ hasAnyViolation
                         /\ allSkusViolated
                         /\ Len(skuViolations) = Len(packedSkus)
        maxViolation == ReduceMaxViolation(skuViolations, 1, 0)
    IN IF Len(packedSkus) = 0 THEN NoSlaCheck
       ELSE IF orderViolated
       THEN [hasViolation |-> TRUE, hasAggregate |-> maxViolation # 0,
             violation |-> IF maxViolation # 0
                           THEN [skuViolations[maxViolation] EXCEPT !.sku = ""]
                           ELSE NoSkuCheck.violation,
             skuViolations |-> skuViolations, allSkusViolated |-> TRUE]
       ELSE [NoSlaCheck EXCEPT !.skuViolations = skuViolations]

\* checkSLAViolationOnPacking(order, packedAt, sku): with a sku (not ""),
\* that item alone is checked (lines 127-152); packedAt stands for
\* "packedAt || new Date()", the time used when the item has none of its own
checkSLAViolationOnPacking(orderId, order, packedAt, sku, slas) ==
    IF Len(order.skus) = 0 THEN NoSlaCheck
    ELSE IF sku = "" THEN checkAllSkus(orderId, order, slas)
    ELSE IF FindSku(order, sku) = 0 THEN NoSlaCheck
    ELSE LET skuItem == order.skus[FindSku(order, sku)]
             skuPackedAt == IF skuItem.packedAt # NullTime THEN skuItem.packedAt
                            ELSE packedAt
             skuCheck == checkSKUSLAViolation(orderId, order, sku, skuPackedAt, slas)
         IN [hasViolation |-> skuCheck.hasViolation,
             hasAggregate |-> skuCheck.hasViolation,
             violation |-> skuCheck.violation,
             skuViolations |-> IF skuCheck.hasViolation
                               THEN <<skuCheck.violation>> ELSE <<>>,
             allSkusViolated |-> skuCheck.hasViolation]

\* the store without the index: every insert is taken
ViolationInsertAllowedNoIndex(viols, order_id, sku) == TRUE

\* partial unique index on (orderId, sku, resolved = false) of the
\* SLAViolation collection, from the persisted state layout of the
\* specification (the model is not part of these sources)
ViolationInsertAllowed(viols, order_id, sku) ==
    \A i \in 1..Len(viols) :
        ~(viols[i].order_id = order_id /\ viols[i].sku = sku /\ ~viols[i].resolved)

\* the record with the bug "written as already resolved"
ViolationDocResolved(violationData, sku) ==
    [dealer_id |-> violationData.dealer_id, order_id |-> violationData.order_id,
     sku |-> sku,
     expected_fulfillment_time |-> violationData.expected_fulfillment_time,
     actual_fulfillment_time |-> violationData.actual_fulfillment_time,
     violation_minutes |-> violationData.violation_minutes,
     resolved |-> TRUE]

\* the document both recorders build from violationData; sku "" is null
ViolationDoc(violationData, sku) ==
    [dealer_id |-> violationData.dealer_id, order_id |-> violationData.order_id,
     sku |-> sku,
     expected_fulfillment_time |-> violationData.expected_fulfillment_time,
     actual_fulfillment_time |-> violationData.actual_fulfillment_time,
     violation_minutes |-> violationData.violation_minutes,
     resolved |-> FALSE]

\* SLAViolation.insertMany(violationRecords): ordered, so the documents are
\* inserted one by one and the first one the index refuses ends the call
RECURSIVE recordSKUViolations(_, _, _)
recordSKUViolations(viols, violationDataArray, i) ==
    IF i > Len(violationDataArray) THEN viols
    ELSE IF ~ViolationInsertAllowed(viols, violationDataArray[i].order_id, violationDataArray[i].sku)
    THEN viols
    ELSE recordSKUViolations(
             Append(viols, ViolationDoc(violationDataArray[i], violationDataArray[i].sku)),
             violationDataArray, i + 1)

\* SLAViolation.find({ order_id, sku: { $in: [...] }, resolved: false })
\* and the set of their skus (lines 1820-1826)
ExistingSkuSet(viols, order_id, skus) ==
    {viols[i].sku : i \in {j \in 1..Len(viols) :
                              /\ viols[j].order_id = order_id
                              /\ viols[j].sku \in skus
                              /\ ~viols[j].resolved}}

\* SLAViolation.findOne({ order_id, sku: null, resolved: false })
ExistingOrderViolation(viols, order_id) ==
    \E i \in 1..Len(viols) :
        viols[i].order_id = order_id /\ viols[i].sku = "" /\ ~viols[i].resolved

NoSlaInfo == [isSLAMet |-> "unset", violationMinutes |-> 0,
              expectedFulfillmentTime |-> NullTime,
              actualFulfillmentTime |-> NullTime]

\* the patch with the bug "only the flag is written"
updateOrderWithSLAViolationFlagOnly(order, violationData) ==
    [order EXCEPT !.slaInfo.isSLAMet = "false"]

\* Order.findByIdAndUpdate(orderId, { "slaInfo....": ... })
updateOrderWithSLAViolation(order, violationData) ==
    [order EXCEPT !.slaInfo =
        [isSLAMet |-> "false",
         violationMinutes |-> violationData.violation_minutes,
         expectedFulfillmentTime |-> violationData.expected_fulfillment_time,
         actualFulfillmentTime |-> violationData.actual_fulfillment_time]]

\* the SKU-level part of checkOrderSLAViolation (lines 1817-1843)
NewViolations(viols, orderId, slaCheck) ==
    LET skus == {slaCheck.skuViolations[i].sku : i \in 1..Len(slaCheck.skuViolations)}
        existingSkuSet == ExistingSkuSet(viols, orderId, skus)
    IN SelectSeq(slaCheck.skuViolations, LAMBDA sv : sv.sku \notin existingSkuSet)

\* checkOrderSLAViolation(order), run without interruption: the violations
\* and the order it leaves and the Boolean it returns
checkOrderSLAViolation(orderId, order, viols, slas) ==
    LET slaCheck == checkSLAViolationOnPacking(orderId, order, NullTime, "", slas)
        recorded == recordSKUViolations(viols,
                                        NewViolations(viols, orderId, slaCheck), 1)
    IN IF Len(order.skus) = 0 \/ Len(PackedSkus(order)) = 0
       THEN [violations |-> viols, order |-> order, result |-> FALSE]
       ELSE IF /\ slaCheck.hasViolation /\ slaCheck.hasAggregate
               /\ slaCheck.allSkusViolated
               /\ ~ExistingOrderViolation(recorded, orderId)
       THEN [violations |-> recorded,
             order |-> updateOrderWithSLAViolation(order, slaCheck.violation),
             result |-> TRUE]
       ELSE [violations |-> recorded, order |-> order,
             result |-> Len(slaCheck.skuViolations) > 0]

\* Order.find({ status: { $nin: [...] }, "dealerMapping.0": { $exists: true },
\*              "dealerMapping.dealerId": { $exists: true, $ne: null } })
IsActiveOrder(order) ==
    /\ order.status \notin {"Delivered", "Cancelled", "Returned"}
    /\ Len(order.dealerMapping) > 0
    /\ \A i \in 1..Len(order.dealerMapping) : order.dealerMapping[i].dealerId # ""

ActiveOrders(os) == {o \in DOMAIN os : IsActiveOrder(os[o])}

FirstOrder(ids) == CHOOSE i \in ids : \A j \in ids : i <= j

\* const hasViolation = await this.checkOrderSLAViolation(order), for each
\* of the orders the sweep found.  The check of an order reads and writes
\* only the documents of that order_id, so each turn is computed on the
\* collection the sweep started with.
SweepResults(ids, os, viols, slas) ==
    [o \in ids |-> checkOrderSLAViolation(o, os[o], viols, slas)]

\* the documents the check with result r added to the collection viols
RecordedBy(viols, r) ==
    SubSeq(r.violations, Len(viols) + 1, Len(r.violations))

\* the loop of checkAllActiveOrders over the orders it found, in _id order:
\* the documents it adds
RECURSIVE SweepRecorded(_, _, _)
SweepRecorded(ids, viols, rs) ==
    IF ids = {} THEN <<>>
    ELSE RecordedBy(viols, rs[FirstOrder(ids)])
         \o SweepRecorded(ids \ {FirstOrder(ids)}, viols, rs)

\* what the sweep leaves and returns, rs being the results of its checks
SweepOrders(ids, os, viols, rs) ==
    [orders |-> [o \in DOMAIN os |-> IF o \in ids THEN rs[o].order ELSE os[o]],
     violations |-> viols \o SweepRecorded(ids, viols, rs),
     processedCount |-> Cardinality(ids),
     violationCount |-> Cardinality({o \in ids : rs[o].result})]

----------------------------------------------------------------------------
(* The SLA engine, one check after another *)

\* what the last operation of the engine returned: checked is the set of
\* orders it ran checkOrderSLAViolation on, result its Boolean (for the
\* sweep: violationCount > 0), inserted the number of documents it added to
\* the SLAViolation collection
NoSlaResponse == [op |-> "", checked |-> {}, result |-> FALSE, inserted |-> 0]

Dealers == {"d1", "d2"}

\* 06:00 and 17:30 of day 0
OrderDates == {21600, 63000}

\* 08:00:29, 08:00:30, 09:10 and 19:40 of day 0, 09:20 of day 1
PackTimes == {28829, 28830, 33000, 70800, 120000}

DealerSLAConfigs ==
    {[found |-> TRUE, is_active |-> TRUE, has_sla_type |-> TRUE, expected_hours |-> 2,
      has_dispatch_hours |-> FALSE, start |-> 0, end |-> 0],
     [found |-> TRUE, is_active |-> TRUE, has_sla_type |-> TRUE, expected_hours |-> 2,
      has_dispatch_hours |-> TRUE, start |-> 9, end |-> 18],
     [found |-> TRUE, is_active |-> FALSE, has_sla_type |-> TRUE, expected_hours |-> 2,
      has_dispatch_hours |-> FALSE, start |-> 0, end |-> 0],
     [found |-> TRUE, is_active |-> TRUE, has_sla_type |-> FALSE, expected_hours |-> 0,
      has_dispatch_hours |-> FALSE, start |-> 0, end |-> 0]}

\* an item that is not packed, one marked Packed without a time, and one
\* packed at each of the times; with or without a dealer of its own
SlaItems(sku) ==
    {[sku |-> sku, status |-> st, packedAt |-> t, dealerMapped |-> d] :
        st \in {"Packed"}, t \in PackTimes \cup {NullTime}, d \in {"", "d2"}}
    \cup {[sku |-> sku, status |-> "Pending", packedAt |-> NullTime,
           dealerMapped |-> ""]}

DealerMappings ==
    {<<[sku |-> "A", dealerId |-> "d1"], [sku |-> "B", dealerId |-> "d1"]>>,
     <<[sku |-> "B", dealerId |-> "d1"]>>}

InitSLA ==
    /\ returns = <<>>
    /\ refunds = <<>>
    /\ gateway = <<>>
    /\ response = NoSlaResponse
    /\ pc = [w \in Workers |-> "idle"]
    /\ local = [w \in Workers |-> NoSlaResponse]
    /\ violations = <<>>
    /\ \E c \in DealerSLAConfigs :
          dealerSlas = [d \in Dealers |->
                          IF d = "d1" THEN c
                          ELSE [c EXCEPT !.found = TRUE, !.is_active = TRUE,
                                         !.has_sla_type = TRUE,
                                         !.expected_hours = 0]]
    /\ \E orderDate \in OrderDates, status \in {"Confirmed", "Delivered"},
          dealerMapping \in DealerMappings, a \in SlaItems("A"), b \in SlaItems("B") :
          orders = [o \in OrderIds |->
                      [orderDate |-> orderDate, status |-> status,
                       dealerMapping |-> dealerMapping, skus |-> <<a, b>>,
                       slaInfo |-> NoSlaInfo]]

\* checkAllActiveOrders(): the sweep
checkAllActiveOrders ==
    /\ \E r \in {SweepOrders(ActiveOrders(orders), orders, violations,
                              SweepResults(ActiveOrders(orders), orders,
                                           violations, dealerSlas))} :
          /\ orders' = r.orders
          /\ violations' = r.violations
          /\ response' = [op |-> "checkAllActiveOrders",
                          checked |-> ActiveOrders(orders),
                          result |-> r.violationCount > 0,
                          inserted |-> Len(r.violations) - Len(violations)]
    /\ UNCHANGED <<returns, refunds, gateway, pc, local, dealerSlas>>

\* the check checkSLAOnOrderUpdate() starts for the order of a PUT or PATCH
checkSLAOnOrderUpdate(orderId) ==
    /\ \E r \in {checkOrderSLAViolation(orderId, orders[orderId], violations,
                                         dealerSlas)} :
          /\ orders' = [orders EXCEPT ![orderId] = r.order]
          /\ violations' = r.violations
          /\ response' = [op |-> "checkOrderSLAViolation", checked |-> {orderId},
                          result |-> r.result,
                          inserted |-> Len(r.violations) - Len(violations)]
    /\ UNCHANGED <<returns, refunds, gateway, pc, local, dealerSlas>>

\* recordSLAViolation(violationData) of the middleware: the document has no
\* sku whatever violationData carries; an insert the index refuses throws
recordSLAViolation(violationData) ==
    /\ IF ViolationInsertAllowed(violations, violationData.order_id, "")
       THEN /\ violations' = Append(violations, ViolationDoc(violationData, ""))
            /\ response' = [op |-> "recordSLAViolation", checked |-> {},
                            result |-> TRUE, inserted |-> 1]
       ELSE /\ violations' = violations
            /\ response' = [op |-> "recordSLAViolation", checked |-> {},
                            result |-> FALSE, inserted |-> 0]
    /\ UNCHANGED <<returns, orders, refunds, gateway, pc, local, dealerSlas>>

\* the violation data a caller holds for an order: what the packing check
\* reports for it, if it reports a violation
ViolationDataOf(orderId) ==
    LET slaCheck == checkSLAViolationOnPacking(orderId, orders[orderId], NullTime, "",
                                               dealerSlas)
    IN IF slaCheck.hasViolation THEN {slaCheck.violation} ELSE {}

NextSLA ==
    \/ checkAllActiveOrders
    \/ \E orderId \in OrderIds : checkSLAOnOrderUpdate(orderId)
    \/ \E orderId \in OrderIds : \E violationData \in ViolationDataOf(orderId) :
          recordSLAViolation(violationData)

SpecSLA == InitSLA /\ [][NextSLA]_vars

----------------------------------------------------------------------------
(* The SLA engine with checks of one order running side by side: a sweep and
   the background check of an order update, or two sweeps.  Each worker runs
   checkOrderSLAViolation and is interleaved with the others at its awaits:
   after the packing check, after SLAViolation.find, after insertMany, after
   SLAViolation.findOne.  The store takes one insertMany or one save at a
   time. *)

\* what a running check holds between its awaits
IdleSla == [orderId |-> 0, slaCheck |-> NoSlaCheck, newViolations |-> <<>>,
            inserted |-> 0]

\* a smaller choice of orders for the interleaved runs: each item unpacked,
\* packed on time or packed late
ConcPackTimes == {28829, 33000}

ConcSlaItems(sku) ==
    {[sku |-> sku, status |-> "Packed", packedAt |-> t, dealerMapped |-> ""] :
        t \in ConcPackTimes}
    \cup {[sku |-> sku, status |-> "Pending", packedAt |-> NullTime,
           dealerMapped |-> ""]}

InitSLAConc ==
    /\ returns = <<>>
    /\ refunds = <<>>
    /\ gateway = <<>>
    /\ response = NoSlaResponse
    /\ pc = [w \in Workers |-> "idle"]
    /\ local = [w \in Workers |-> IdleSla]
    /\ violations = <<>>
    /\ \E c \in DealerSLAConfigs :
          dealerSlas = [d \in Dealers |-> c]
    /\ \E dealerMapping \in DealerMappings,
          a \in ConcSlaItems("A"), b \in ConcSlaItems("B") :
          orders = [o \in OrderIds |->
                      [orderDate |-> 21600, status |-> "Confirmed",
                       dealerMapping |-> dealerMapping, skus |-> <<a, b>>,
                       slaInfo |-> NoSlaInfo]]

\* lines 1797-1814: the early returns and the packing check
slaStart(w, orderId) ==
    /\ pc[w] = "idle"
    /\ IF Len(orders[orderId].skus) = 0 \/ Len(PackedSkus(orders[orderId])) = 0
       THEN /\ pc' = pc
            /\ local' = [local EXCEPT ![w] = IdleSla]
       ELSE \E slaCheck \in {checkSLAViolationOnPacking(orderId, orders[orderId],
                                                        NullTime, "", dealerSlas)} :
               /\ local' = [local EXCEPT ![w] =
                               [IdleSla EXCEPT !.orderId = orderId,
                                               !.slaCheck = slaCheck]]
               /\ pc' = [pc EXCEPT ![w] =
                            IF Len(slaCheck.skuViolations) > 0
                            THEN "sla_find" ELSE "sla_order_level"]
    /\ UNCHANGED <<returns, orders, refunds, gateway, response, slaVars>>

\* lines 1820-1833: the unresolved documents of the late SKUs are read and
\* the SKUs that have none are kept
slaFindExisting(w) ==
    /\ pc[w] = "sla_find"
    /\ \E newViolations \in {NewViolations(violations, local[w].orderId,
                                           local[w].slaCheck)} :
          /\ local' = [local EXCEPT ![w].newViolations = newViolations]
          /\ pc' = [pc EXCEPT ![w] = IF Len(newViolations) > 0
                                     THEN "sla_insert" ELSE "sla_order_level"]
    /\ UNCHANGED <<returns, orders, refunds, gateway, response, slaVars>>

\* lines 1834-1842: recordSKUViolations; what it throws is caught and logged
slaInsert(w) ==
    /\ pc[w] = "sla_insert"
    /\ violations' = recordSKUViolations(violations, local[w].newViolations, 1)
    /\ local' = [local EXCEPT ![w].inserted = Len(violations') - Len(violations)]
    /\ pc' = [pc EXCEPT ![w] = "sla_order_level"]
    /\ UNCHANGED <<returns, orders, refunds, gateway, response, dealerSlas>>

\* lines 1846-1855 and 1867: the order-level document is looked up; the check
\* returns here unless the order is to be patched
slaFindOrderLevel(w) ==
    /\ pc[w] = "sla_order_level"
    /\ IF /\ local[w].slaCheck.hasViolation /\ local[w].slaCheck.hasAggregate
          /\ local[w].slaCheck.allSkusViolated
          /\ ~ExistingOrderViolation(violations, local[w].orderId)
       THEN /\ pc' = [pc EXCEPT ![w] = "sla_patch"]
            /\ local' = local
       ELSE /\ pc' = [pc EXCEPT ![w] = "idle"]
            /\ local' = [local EXCEPT ![w] = IdleSla]
    /\ UNCHANGED <<returns, orders, refunds, gateway, response, slaVars>>

\* lines 1856-1860: updateOrderWithSLAViolation, and the check returns true
slaPatchOrder(w) ==
    /\ pc[w] = "sla_patch"
    /\ orders' = [orders EXCEPT ![local[w].orderId] =
                     updateOrderWithSLAViolation(orders[local[w].orderId],
                                                 local[w].slaCheck.violation)]
    /\ pc' = [pc EXCEPT ![w] = "idle"]
    /\ local' = [local EXCEPT ![w] = IdleSla]
    /\ UNCHANGED <<returns, refunds, gateway, response, slaVars>>

NextSLAConc ==
    \/ \E w \in Workers, orderId \in OrderIds : slaStart(w, orderId)
    \/ \E w \in Workers : slaFindExisting(w)
    \/ \E w \in Workers : slaInsert(w)
    \/ \E w \in Workers : slaFindOrderLevel(w)
    \/ \E w \in Workers : slaPatchOrder(w)
    \/ \E orderId \in OrderIds : \E violationData \in ViolationDataOf(orderId) :
          recordSLAViolation(violationData)

SpecSLAConc == InitSLAConc /\ [][NextSLAConc]_vars

----------------------------------------------------------------------------
(* The refund processor on its own: one approved return of one or two items,
   on which processRefund is tried again and again. *)

\* a return of q items of "A" that the inspection has just approved
ApprovedReturn(q) ==
    InspectionCompletedUpdate(
        [UnderInspection EXCEPT !.quantity = q,
                                !.refund.refundAmount = q * OrderItem(2, DeliveredDay).selling_price],
        TRUE, "Good")

\* userData.bank_details of the customer profile; found: the user service
\* answered
UserProfiles ==
    {[found |-> f, account_number |-> a, ifsc_code |-> i,
      bank_account_holder_name |-> h] : f \in BOOLEAN, a \in BOOLEAN,
                                        i \in BOOLEAN, h \in BOOLEAN}

\* hasBankAccount = !!(account_number && ifsc_code && bank_account_holder_name),
\* false when the lookup threw
HasBankAccount(profile) ==
    /\ profile.found
    /\ profile.account_number
    /\ profile.ifsc_code
    /\ profile.bank_account_holder_name

\* the outcome of the customer lookup, as the handlers draw it
UserOutcomeOf(profile) ==
    IF ~profile.found THEN "unavailable"
    ELSE IF HasBankAccount(profile) THEN "bank" ELSE "no_bank"

\* payment records with a provider id: captured 100, 150, 200 and 300 paise
CapturedPayments ==
    {[exists |-> TRUE, hasPaymentId |-> TRUE, amount |-> a] : a \in {100, 150, 200, 300}}

InitRefund ==
    /\ \E q \in {1, 2} : returns = <<ApprovedReturn(q)>>
    /\ orders = [o \in OrderIds |->
                   [userId |-> Customer,
                    skus |-> [s \in SKUs |->
                                IF s = "A" THEN [OrderItem(2, DeliveredDay)
                                                   EXCEPT !.return_id = 1]
                                           ELSE OrderItem(1, 0)]]]
    /\ refunds = <<>>
    /\ gateway = <<>>
    /\ response = NoResponse
    /\ pc = [w \in Workers |-> "idle"]
    /\ local = [w \in Workers |-> IdleLocal]
    /\ violations = <<>>
    /\ dealerSlas = <<>>

NextRefund ==
    \/ endRequest
    \/ Ready /\ \E id \in 1..MaxReturns : processRefund(id, "admin1")
    \/ Ready /\ \E id \in 1..MaxReturns, notifyOk \in BOOLEAN : completeReturn(id, notifyOk)

SpecRefund == InitRefund /\ [][NextRefund]_vars

\* a processRefund on return id during which the customer has no bank
\* account on file, the order's payment has a provider id and the provider
\* answers the refund call, if it gets one, with "processed"; the Refund
\* insert succeeds
processRefundProviderAccepts(id, adminId) ==
    /\ Ready
    /\ processRefund(id, adminId)
    /\ \E payment \in {p \in PaymentChoices : p.hasPaymentId}, notifyOk \in BOOLEAN :
          LET refundResult == processRefundPayment(id, returns[id],
                                  "Original_Payment_Method", payment, "no_bank",
                                  "ok", "processed", gateway, refunds)
          IN /\ gateway' = refundResult.gateway
             /\ refunds' = refundResult.refunds
             /\ returns'[id] = RefundHandled(returns[id], refundResult, adminId,
                                             "Original_Payment_Method")

\* processRefund is invoked again and again on the approved return, and
\* again and again with the provider accepting
SpecRefundRetry ==
    /\ InitRefund
    /\ [][NextRefund]_vars
    /\ WF_vars(endRequest)
    /\ SF_vars(processRefundProviderAccepts(1, "admin1"))

----------------------------------------------------------------------------
(* The eligibility evaluator on its own: orders whose items were delivered
   on different days or not at all, evaluated on different days against a
   product that is or is not returnable, with the product service answering
   or not. *)

\* axios.get(PRODUCT_SERVICE_URL/sku/...): what the evaluator gets to know of
\* a product; no successful answer leaves isProductReturnable false
ProductAnswer(isReturnable, catalogOk) ==
    IF ~catalogOk THEN "unavailable"
    ELSE IF isReturnable THEN "returnable" ELSE "not_returnable"

\* delivery days of an item, 0: no deliveredAt
EligDeliveredDays == {0, 1, 2}

\* evaluation days: the day of the first delivery, the last days of the
\* windows, the days after them and the tenth day after the first delivery
EligDays == {1, 8, 9, 10, 11}

\* "Z" is not an item of the order
EligSkus == SKUs \cup {"Z"}

NoEligibility == [isEligible |-> FALSE, reason |-> "",
                  isWithinReturnWindow |-> FALSE, isProductReturnable |-> FALSE,
                  returnWindowDays |-> 0]

\* one evaluation: what it was given and what it returned
NoEvaluation == [sku |-> "", today |-> 0, isReturnable |-> FALSE,
                 catalogOk |-> FALSE, result |-> NoEligibility]

\* the caller keeps the last two evaluations
NoEligResponse == [op |-> "", last |-> NoEvaluation, previous |-> NoEvaluation]

InitElig ==
    /\ returns = <<>>
    /\ \E deliveredA \in EligDeliveredDays, deliveredB \in EligDeliveredDays :
          orders = [o \in OrderIds |->
                      [userId |-> Customer,
                       skus |-> [s \in SKUs |->
                                   IF s = "A" THEN OrderItem(2, deliveredA)
                                              ELSE OrderItem(1, deliveredB)]]]
    /\ refunds = <<>>
    /\ gateway = <<>>
    /\ response = NoEligResponse
    /\ pc = [w \in Workers |-> "idle"]
    /\ local = [w \in Workers |-> IdleLocal]
    /\ violations = <<>>
    /\ dealerSlas = <<>>

\* the evaluation with the bug "the item is marked as under return"
evaluateEligibilityMarking(orderId, sku, today, isReturnable, catalogOk) ==
    /\ response' =
          [op |-> "validateReturnEligibility",
           last |-> [sku |-> sku, today |-> today, isReturnable |-> isReturnable,
                     catalogOk |-> catalogOk,
                     result |-> validateReturnEligibility(
                                    orders[orderId], sku, today,
                                    ProductAnswer(isReturnable, catalogOk))],
           previous |-> response.last]
    /\ orders' = IF HasSku(orders[orderId], sku)
                 THEN [orders EXCEPT ![orderId] = MarkReturn(@, sku, 1)]
                 ELSE orders
    /\ UNCHANGED <<returns, refunds, gateway, pc, local, slaVars>>

\* validateReturnEligibility(order, sku) called on day today for a product
\* that is returnable or not, the product service answering or not
evaluateEligibility(orderId, sku, today, isReturnable, catalogOk) ==
    /\ response' =
          [op |-> "validateReturnEligibility",
           last |-> [sku |-> sku, today |-> today, isReturnable |-> isReturnable,
                     catalogOk |-> catalogOk,
                     result |-> validateReturnEligibility(
                                    orders[orderId], sku, today,
                                    ProductAnswer(isReturnable, catalogOk))],
           previous |-> response.last]
    /\ UNCHANGED <<returns, orders, refunds, gateway, pc, local, slaVars>>

NextElig ==
    \E orderId \in OrderIds, sku \in EligSkus, today \in EligDays,
       isReturnable \in BOOLEAN, catalogOk \in BOOLEAN :
        evaluateEligibility(orderId, sku, today, isReturnable, catalogOk)

SpecElig == InitElig /\ [][NextElig]_vars

----------------------------------------------------------------------------
(* The SLA calculator on its own: orders placed at every hour of a day, on
   the hour and just before the next half hour, against dealer
   configurations with and without an SLA type and a dispatch window. *)

CalcOrderDates == {h * 3600 + m : h \in 0..23, m \in {0, 1799}}

CalcExpectedHours == {0, 2, 5, 24}

\* dispatch_hours: none, or 9 to 18
CalcConfigs ==
    {[found |-> TRUE, is_active |-> TRUE, has_sla_type |-> ty, expected_hours |-> eh,
      has_dispatch_hours |-> dh, start |-> IF dh THEN 9 ELSE 0,
      end |-> IF dh THEN 18 ELSE 0] :
        ty \in BOOLEAN, eh \in CalcExpectedHours, dh \in BOOLEAN}

NoCalcResponse == [op |-> "", dealerId |-> "", result |-> NullTime]

InitCalc ==
    /\ returns = <<>>
    /\ refunds = <<>>
    /\ gateway = <<>>
    /\ response = NoCalcResponse
    /\ pc = [w \in Workers |-> "idle"]
    /\ local = [w \in Workers |-> NoCalcResponse]
    /\ violations = <<>>
    /\ \E c \in CalcConfigs : dealerSlas = [d \in {"d1"} |-> c]
    /\ \E orderDate \in CalcOrderDates :
          orders = [o \in OrderIds |->
                      [orderDate |-> orderDate, status |-> "Confirmed",
                       dealerMapping |-> <<>>, skus |-> <<>>, slaInfo |-> NoSlaInfo]]

\* calculateExpectedFulfillmentTime(order.orderDate, dealerSLA) for the
\* configuration of a dealer, which may have none
expectedFulfillmentTimeOf(orderId, dealerId) ==
    /\ response' = [op |-> "calculateExpectedFulfillmentTime", dealerId |-> dealerId,
                    result |-> calculateExpectedFulfillmentTime(
                                   orders[orderId].orderDate,
                                   FindDealerSLA(dealerSlas, dealerId))]
    /\ UNCHANGED <<returns, orders, refunds, gateway, pc, local, slaVars>>

NextCalc ==
    \E orderId \in OrderIds, dealerId \in Dealers :
        expectedFulfillmentTimeOf(orderId, dealerId)

SpecCalc == InitCalc /\ [][NextCalc]_vars

----------------------------------------------------------------------------
(* Properties *)

GuardedOps ==
    {"schedulePickup", "completePickup", "startInspection", "completeInspection",
     "processRefund", "completeReturn"}

\* the status section 4.1 requires for each guarded operation
RequiredStatus(op) ==
    CASE op = "schedulePickup" -> "Validated"
      [] op = "completePickup" -> "Pickup_Scheduled"
      [] op = "startInspection" -> "Pickup_Completed"
      [] op = "completeInspection" -> "Under_Inspection"
      [] op = "processRefund" -> "Approved"
      [] op = "completeReturn" -> "Refund_Processed"

\* the refusal that names the status each guarded operation requires
PreconditionFailed(op) ==
    CASE op = "schedulePickup" -> MsgMustValidated
      [] op = "completePickup" -> MsgMustPickupScheduled
      [] op = "startInspection" -> MsgMustPickupCompleted
      [] op = "completeInspection" -> MsgMustUnderInspection
      [] op = "processRefund" -> MsgMustApproved
      [] op = "completeReturn" -> MsgMustRefundProcessed

\* the messages of the ValidationError class of section 7
ValidationErrors == {MsgMissing, MsgExists, MsgQuantity}

\* position of a status on the path of section 4.1
Rank(status) ==
    CASE status = "Requested" -> 0
      [] status = "Validated" -> 1
      [] status = "Pickup_Scheduled" -> 2
      [] status = "Pickup_Completed" -> 3
      [] status = "Under_Inspection" -> 4
      [] status \in {"Approved", "Rejected"} -> 5
      [] status = "Refund_Processed" -> 6
      [] status = "Completed" -> 7

\* this step is handler op answering a request about return id
Answers(op, id) ==
    /\ Ready
    /\ response'.op = op
    /\ response'.returnId = id

LedgerEntriesOf(id) == {i \in 1..Len(refunds) : refunds[i].return_id = id}

\* C1: a guarded operation invoked on a return whose status is not the one it
\* requires changes nothing that is persisted and is answered with the
\* precondition failure naming the required status.
C1_StateMachineSafety ==
    [][\A id \in ReturnIds : \A op \in GuardedOps :
          (Answers(op, id) /\ returns[id].returnStatus # RequiredStatus(op))
          => /\ returns' = returns
             /\ orders' = orders
             /\ refunds' = refunds
             /\ gateway' = gateway
             /\ ~response'.ok
             /\ response'.message = PreconditionFailed(op)]_vars

\* a completeReturn refused on a return that is only approved
C1_Witness ==
    /\ response.op = "completeReturn"
    /\ response.message = MsgMustRefundProcessed
    /\ response.returnId \in ReturnIds
    /\ returns[response.returnId].returnStatus = "Approved"

\* C2: every change of returnStatus moves forward along the path of section
\* 4.1, never to an earlier stage.
C2_NoBackwardTransition ==
    [][\A id \in ReturnIds :
          Rank(returns'[id].returnStatus) >= Rank(returns[id].returnStatus)]_vars

\* C3: once the status is Completed or Rejected no operation changes it.
C3_TerminalStatuses ==
    [][\A id \in ReturnIds :
          returns[id].returnStatus \in {"Completed", "Rejected"}
          => returns'[id].returnStatus = returns[id].returnStatus]_vars

\* C4: two process-refund requests running at the same time on one approved
\* return never both succeed and never both record a refund.
C4_MutuallyExclusiveRefunds ==
    /\ \A id \in ReturnIds : Cardinality(LedgerEntriesOf(id)) <= 1
    /\ ~ \A w \in Workers : /\ local[w].response.op = "processRefund"
                            /\ local[w].response.ok

\* C5: a process-refund that succeeded leaves the return in Refund_Processed,
\* and a process-refund on a return in Refund_Processed is refused with the
\* precondition failure, calls no provider and writes no ledger entry.
C5_SecondRefundRefused ==
    /\ [](response.op = "processRefund" /\ response.ok
          => returns[response.returnId].returnStatus = "Refund_Processed")
    /\ [][\A id \in ReturnIds :
            (Answers("processRefund", id)
             /\ returns[id].returnStatus = "Refund_Processed")
            => /\ ~response'.ok
               /\ response'.message = MsgMustApproved
               /\ gateway' = gateway
               /\ refunds' = refunds
               /\ returns' = returns]_vars

\* a process-refund refused on a return whose refund was already processed
C5_Witness ==
    /\ response.op = "processRefund"
    /\ response.message = MsgMustApproved
    /\ response.returnId \in ReturnIds
    /\ returns[response.returnId].returnStatus = "Refund_Processed"
    /\ returns[response.returnId].refund.transactionId # 0

\* C6: process refund on an approved return: when the processor reports
\* failure (or the provider accepted nothing) the request is refused and the
\* status stays Approved; otherwise the status is Refund_Processed and the
\* refund sub-record holds the id of a provider call accepted in this run.
C6_RefundOutcome ==
    [][\A id \in ReturnIds :
          (Answers("processRefund", id) /\ returns[id].returnStatus = "Approved")
          => /\ gateway' = gateway => response'.message = MsgRefundFailed
             /\ IF response'.message = MsgRefundFailed
                THEN /\ ~response'.ok
                     /\ returns'[id].returnStatus = "Approved"
                ELSE /\ returns'[id].returnStatus = "Refund_Processed"
                     /\ returns'[id].refund.transactionId
                           \in (Len(gateway) + 1)..Len(gateway')
                     /\ gateway'[returns'[id].refund.transactionId].return_id = id]_vars

\* a refund the processor failed: refused, the return still Approved
C6_Witness ==
    /\ response.op = "processRefund"
    /\ response.message = MsgRefundFailed
    /\ response.returnId \in ReturnIds
    /\ returns[response.returnId].returnStatus = "Approved"

\* a run of the processor on the approved return id in the current state
RefundRun(id, refundMethod, payment, userOutcome, payoutOutcome, refundOutcome) ==
    processRefundPayment(id, returns[id], refundMethod, payment, userOutcome,
                         payoutOutcome, refundOutcome, gateway, refunds)

PayoutStepFailures == {"contact_failed", "fund_account_failed", "payout_failed"}

\* the source-refund path can go through: payment id present, balance
\* sufficient, provider answers "processed"
SourceRefundGoesThrough(id, payment, refundOutcome) ==
    /\ payment.hasPaymentId
    /\ refundOutcome = "processed"
    /\ ToPaise(returns[id].refund.refundAmount)
          <= payment.amount - AmountRefunded(gateway, returns[id].orderId)

\* C7: when the bank-payout path is selected and one of its steps fails, the
\* run goes on to the source-refund path; it succeeds whenever that path goes
\* through, and a successful run adds exactly one ledger entry, of the
\* source-refund type, for exactly one accepted provider refund.
C7_PayoutFallback ==
    \A id \in ReturnIds :
        returns[id].returnStatus = "Approved" =>
        \A refundMethod \in RefundMethods, payment \in PaymentChoices,
           payoutOutcome \in PayoutStepFailures, refundOutcome \in RefundOutcomes :
            LET run == RefundRun(id, refundMethod, payment, "bank", payoutOutcome,
                                 refundOutcome)
            IN (payment.exists /\ UseBankPayout("bank", refundMethod, payment))
               => /\ SourceRefundGoesThrough(id, payment, refundOutcome) => run.success
                  /\ run.success
                     => /\ run.refundType = "Source_Refund"
                        /\ Len(run.refunds) = Len(refunds) + 1
                        /\ SubSeq(run.refunds, 1, Len(refunds)) = refunds
                        /\ run.refunds[Len(run.refunds)].refund_type = "Refund-Online"
                        /\ run.refunds[Len(run.refunds)].return_id = id
                        /\ Len(run.gateway) = Len(gateway) + 1
                        /\ run.gateway[Len(run.gateway)].kind = "refund"

\* an approved return on which a run that selects the bank payout, fails at
\* payout creation and falls back succeeds
C7_Witness ==
    \E id \in ReturnIds :
        /\ returns[id].returnStatus = "Approved"
        /\ \E payment \in PaymentChoices :
              /\ payment.exists
              /\ UseBankPayout("bank", "Bank_Account", payment)
              /\ RefundRun(id, "Bank_Account", payment, "bank", "payout_failed",
                           "processed").success

\* C8: every run of the refund processor either succeeds with one accepted
\* provider call and one ledger entry for it, referenced from the return, or
\* reports failure with no accepted provider call and no ledger entry.
C8_RefundAtomicity ==
    [][\A id \in ReturnIds :
          (Answers("processRefund", id) /\ returns[id].returnStatus = "Approved")
          => \/ /\ response'.message # MsgRefundFailed
                /\ Len(gateway') = Len(gateway) + 1
                /\ Len(refunds') = Len(refunds) + 1
                /\ refunds'[Len(refunds')].provider_id = Len(gateway')
                /\ returns'[id].refund.refund_id = Len(refunds')
             \/ /\ response'.message = MsgRefundFailed
                /\ gateway' = gateway
                /\ refunds' = refunds]_vars

\* C9: every refund ledger entry records a payout or refund call the provider
\* accepted, for the same return and amount, and no two entries record the
\* same call.
C9_LedgerOnlyOnProviderSuccess ==
    /\ \A i \in 1..Len(refunds) :
          /\ refunds[i].provider_id \in 1..Len(gateway)
          /\ gateway[refunds[i].provider_id].return_id = refunds[i].return_id
          /\ gateway[refunds[i].provider_id].amount = ToPaise(refunds[i].amount)
          /\ gateway[refunds[i].provider_id].kind =
                (IF refunds[i].refund_type = "Refund-COD" THEN "payout" ELSE "refund")
    /\ \A i, j \in 1..Len(refunds) :
          refunds[i].provider_id = refunds[j].provider_id => i = j

\* a refund the processor failed after a ledger entry had been written
\* earlier: the failed run added none
C9_Witness ==
    /\ response.op = "processRefund"
    /\ response.message = MsgRefundFailed
    /\ Len(refunds) = 1
    /\ Len(gateway) = 1

ExistsReturnFor(orderId, sku) ==
    \E i \in ReturnIds : returns[i].orderId = orderId /\ returns[i].sku = sku

\* C10: a create for an (orderId, sku) that already has a return fails with a
\* validation error and persists nothing, whatever the status of that return.
C10_SequentialUniqueness ==
    [][(/\ Ready
        /\ response'.op = "create"
        /\ ExistsReturnFor(response'.about.orderId, response'.about.sku))
       => /\ ~response'.ok
          /\ response'.message \in ValidationErrors
          /\ returns' = returns
          /\ orders' = orders]_vars

\* a create refused for a pair whose return is already completed
C10_Witness ==
    /\ response.op = "create"
    /\ response.message = MsgExists
    /\ \E i \in ReturnIds : /\ returns[i].orderId = response.about.orderId
                            /\ returns[i].sku = response.about.sku
                            /\ returns[i].returnStatus = "Completed"

----------------------------------------------------------------------------
(* C16: a create that persists an eligible return leaves it at
   Pickup_Scheduled, validated and with the pickup stamped, and answers with
   the document it created at Validated; a create that persists an
   ineligible return leaves it at Requested with no pickup. *)
C16_CreateAutoPickup ==
    [][(response'.op = "create" /\ Len(returns') = Len(returns) + 1) =>
          LET doc == returns'[Len(returns')]
          IN IF doc.isEligible
             THEN /\ doc.returnStatus = "Pickup_Scheduled"
                  /\ doc.timestamps.validatedAt
                  /\ doc.timestamps.pickupScheduledAt
                  /\ doc.pickupRequest.pickupId # ""
             ELSE /\ doc.returnStatus = "Requested"
                  /\ doc.pickupRequest = NoPickup
                  /\ ~doc.timestamps.pickupScheduledAt]_vars

----------------------------------------------------------------------------
(* C17: a create whose body misses a required field, or names an (order,
   sku) that already has a return, an unknown order, an order of another
   customer, a sku that is not in the order or more items than were ordered,
   is answered with an error and leaves the Return collection and the order
   as they were. *)
CreateRefusals ==
    {MsgMissing, MsgExists, MsgOrderNotFound, MsgUnauthorized, MsgSkuNotFound,
     MsgQuantity}

RejectCase(b) ==
    \/ b.orderId = 0 \/ b.sku = "" \/ b.returnReason = "" \/ b.customerId = ""
    \/ ExistsReturnFor(b.orderId, b.sku)
    \/ b.orderId \notin OrderIds
    \/ /\ b.orderId \in OrderIds
       /\ \/ orders[b.orderId].userId # b.customerId
          \/ b.sku \notin DOMAIN orders[b.orderId].skus
          \/ /\ b.sku \in DOMAIN orders[b.orderId].skus
             /\ b.quantity > orders[b.orderId].skus[b.sku].quantity

C17_CreateRejections ==
    [][\A b \in CreateInputs :
          (response'.op = "create" /\ RejectCase(b)
           /\ createReturnRequest(b.orderId, b.sku, b.quantity,
                                   b.returnReason, b.customerId))
          => /\ ~response'.ok
             /\ response'.message \in CreateRefusals
             /\ returns' = returns
             /\ orders' = orders]_vars

\* create was refused for asking more items than the order holds
C17_Witness ==
    /\ response.op = "create"
    /\ response.message = MsgQuantity
    /\ returns = <<>>

----------------------------------------------------------------------------
(* C18: schedulePickup on a Validated return whose carrier booking fails
   answers success and leaves the return at Pickup_Scheduled with the pickup
   id and tracking number made up locally and pickupScheduledAt stamped. *)
C18_CarrierFailureTolerated ==
    [][\A id \in ReturnIds, notifyOk \in BOOLEAN :
          (response'.op = "schedulePickup" /\ returns[id].returnStatus = "Validated"
           /\ schedulePickup(id, FALSE, notifyOk))
          => /\ response'.ok
             /\ returns'[id].returnStatus = "Pickup_Scheduled"
             /\ returns'[id].pickupRequest.pickupId = "PICKUP_local"
             /\ returns'[id].pickupRequest.trackingNumber = "TRK_local"
             /\ returns'[id].timestamps.pickupScheduledAt]_vars

----------------------------------------------------------------------------
(* C19: completeInspection on a return under inspection leaves it Approved
   with action Refund when the approval flag of the request is true and
   Rejected with action Rejected when it is false, whatever the condition
   reported. *)
Conditions == {"Good", "Damaged"}

C19_InspectionByFlagOnly ==
    [][\A id \in ReturnIds, isApproved \in BOOLEAN, condition \in Conditions,
          notifyOk \in BOOLEAN :
          (response'.op = "completeInspection"
           /\ returns[id].returnStatus = "Under_Inspection"
           /\ completeInspection(id, isApproved, condition, notifyOk))
          => /\ returns'[id].returnStatus =
                   IF isApproved THEN "Approved" ELSE "Rejected"
             /\ returns'[id].actionTaken =
                   IF isApproved THEN "Refund" ELSE "Rejected"]_vars

\* a damaged item was approved, because the inspector said so
C19_Witness ==
    /\ response.op = "completeInspection"
    /\ response.returnId \in ReturnIds
    /\ returns[response.returnId].returnStatus = "Approved"
    /\ returns[response.returnId].actionTaken = "Refund"
    /\ returns[response.returnId].inspection.condition = "Damaged"

----------------------------------------------------------------------------
(* C20: a handler that answers success has sent one notification to the
   customer for each status transition it made: two for a create or a
   validate that went on to schedule the pickup, one for every other. *)
TransitionOps ==
    {"create", "validate", "schedulePickup", "completePickup", "startInspection",
     "completeInspection", "processRefund", "completeReturn"}

TransitionsMade(resp, rs) ==
    IF resp.op \in {"create", "validate"}
       /\ rs[resp.returnId].returnStatus = "Pickup_Scheduled"
    THEN 2 ELSE 1

CustomerNotifications(resp) ==
    Cardinality({i \in DOMAIN resp.notified : resp.notified[i] = "customer"})

C20_OneCustomerNotificationPerTransition ==
    [][(response'.ok /\ response'.op \in TransitionOps) =>
          CustomerNotifications(response') = TransitionsMade(response', returns')]_vars

----------------------------------------------------------------------------
(* C11: also when creates for the same order and sku interleave, the Return
   collection never holds two documents for one (orderId, sku). *)
C11_ConcurrentUniqueness ==
    \A i, j \in ReturnIds :
        (returns[i].orderId = returns[j].orderId /\ returns[i].sku = returns[j].sku)
        => i = j

\* two creates for one (orderId, sku) both passed the existence check; one
\* has inserted its document and the other was refused by the store
C11_Witness ==
    \E w, v \in Workers :
        /\ w # v
        /\ pc[w] = "create_persisted"
        /\ local[v].response.ok = FALSE
        /\ local[v].response.message = "Failed to create return request"
        /\ local[v].response.about = [orderId |-> local[w].body.orderId,
                                      sku |-> local[w].body.sku]
        /\ local[v].response.returnId = 0

----------------------------------------------------------------------------
(* The claims on the SLA engine speak of the unresolved documents of one
   (order, sku) slot, sku "" being the order-level slot, and of an item
   being late by the SKU rule. *)
UnresolvedRecords(viols, o, s) ==
    {i \in 1..Len(viols) :
        viols[i].order_id = o /\ viols[i].sku = s /\ ~viols[i].resolved}

SkuLate(o, item) ==
    checkSKUSLAViolation(o, orders[o], item.sku, item.packedAt, dealerSlas).hasViolation

AllPackedLate(o) ==
    /\ Len(PackedSkus(orders[o])) > 0
    /\ \A i \in 1..Len(PackedSkus(orders[o])) : SkuLate(o, PackedSkus(orders[o])[i])

SlaCheckOps == {"checkOrderSLAViolation", "checkAllActiveOrders"}

Slots == SKUs \cup {""}

----------------------------------------------------------------------------
(* C12: after the SLA check of an order, the order carries isSLAMet = false
   only if every packed SKU of it is late, so with one packed SKU on time
   the flag is not set; each late packed SKU has exactly one unresolved
   SKU-level violation document and each on-time packed SKU has none. *)
C12_AggregationPolicy ==
    response.op \in SlaCheckOps =>
        \A o \in response.checked :
            /\ orders[o].slaInfo.isSLAMet = "false" => AllPackedLate(o)
            /\ \A i \in 1..Len(PackedSkus(orders[o])) :
                  Cardinality(UnresolvedRecords(violations, o,
                                                PackedSkus(orders[o])[i].sku))
                  = IF SkuLate(o, PackedSkus(orders[o])[i]) THEN 1 ELSE 0

\* the order was checked with both items packed, A late and B on time: the
\* flag is not set and the one document is the one of A
C12_Witness ==
    /\ response.op = "checkOrderSLAViolation"
    /\ response.checked = {1}
    /\ Len(PackedSkus(orders[1])) = 2
    /\ SkuLate(1, orders[1].skus[1])
    /\ ~SkuLate(1, orders[1].skus[2])
    /\ orders[1].slaInfo.isSLAMet = "unset"
    /\ Len(violations) = 1
    /\ violations[1].sku = "A"

----------------------------------------------------------------------------
(* C13: after the SLA check of an order whose packed SKUs are all late, the
   order carries isSLAMet = false and the collection holds exactly one
   unresolved order-level document (no sku) for the order and exactly one
   unresolved document for each late SKU. *)
C13_FullViolationRecords ==
    response.op \in SlaCheckOps =>
        \A o \in response.checked :
            AllPackedLate(o) =>
                /\ orders[o].slaInfo.isSLAMet = "false"
                /\ Cardinality(UnresolvedRecords(violations, o, "")) = 1
                /\ \A i \in 1..Len(PackedSkus(orders[o])) :
                      Cardinality(UnresolvedRecords(violations, o,
                                                    PackedSkus(orders[o])[i].sku)) = 1

----------------------------------------------------------------------------
(* C14: an SLA check leaves every slot that already holds an unresolved
   document as it found it, and a check that runs right after a check of the
   same orders, nothing having changed in between, leaves the whole
   collection and the orders as they are. *)
C14_SequentialIdempotence ==
    [][response'.op \in SlaCheckOps =>
          /\ \A o \in OrderIds, s \in Slots :
                UnresolvedRecords(violations, o, s) # {} =>
                    UnresolvedRecords(violations', o, s)
                    = UnresolvedRecords(violations, o, s)
          /\ (response.op \in SlaCheckOps /\ response'.checked \subseteq response.checked)
             => (violations' = violations /\ orders' = orders)]_vars

\* a check found both items late, both already on record from an earlier
\* check, and added nothing
C14_Witness ==
    /\ response.op = "checkOrderSLAViolation"
    /\ response.checked = {1}
    /\ response.result
    /\ response.inserted = 0
    /\ AllPackedLate(1)
    /\ Len(PackedSkus(orders[1])) = 2
    /\ \A s \in SKUs : Cardinality(UnresolvedRecords(violations, 1, s)) = 1

----------------------------------------------------------------------------
(* C15: also when checks of one order run side by side, and whatever the
   middleware records meanwhile, the collection never holds two unresolved
   documents for one order and sku, the order-level slot (no sku)
   included. *)
C15_OneUnresolvedPerSlot ==
    \A o \in OrderIds, s \in Slots :
        Cardinality(UnresolvedRecords(violations, o, s)) <= 1

\* two checks of the order both found no document for its late items; one
\* has inserted them and the insertMany of the other was refused
C15_Witness ==
    \E w, v \in Workers :
        /\ w # v
        /\ pc[w] = "sla_order_level"
        /\ pc[v] = "sla_order_level"
        /\ local[w].inserted > 0
        /\ local[v].newViolations # <<>>
        /\ local[v].inserted = 0
        /\ local[v].newViolations = local[w].newViolations

----------------------------------------------------------------------------
(* C21: an operation that notifies and has persisted its change answers
   success also when the notification fails, and a create or a validate
   that left an eligible request has gone on to schedule its pickup. *)
NotifyingOps ==
    {"create", "validate", "schedulePickup", "completePickup",
     "completeInspection", "processRefund", "completeReturn"}

C21_NotificationsBestEffort ==
    [][(response'.op \in NotifyingOps /\ returns' # returns
        /\ response'.message # MsgRefundFailed) =>
          /\ response'.ok
          /\ (response'.op \in {"create", "validate"}
              /\ returns'[response'.returnId].isEligible)
             => returns'[response'.returnId].returnStatus = "Pickup_Scheduled"]_vars

----------------------------------------------------------------------------
(* C22: validate on a request in Requested stamps validatedAt; when the
   evaluator finds the request eligible it is validated and its pickup is
   scheduled, when not it stays in Requested with no pickup. *)
C22_ValidateOutcome ==
    [][\A id \in ReturnIds :
          (Answers("validate", id) /\ returns[id].returnStatus = "Requested")
          => /\ returns'[id].timestamps.validatedAt
             /\ IF returns'[id].isEligible
                THEN /\ returns'[id].returnStatus = "Pickup_Scheduled"
                     /\ returns'[id].timestamps.pickupScheduledAt
                     /\ returns'[id].pickupRequest.pickupId # ""
                ELSE /\ returns'[id].returnStatus = "Requested"
                     /\ returns'[id].pickupRequest = NoPickup]_vars

----------------------------------------------------------------------------
(* C23: validate applied to a request twice in a row, on the same day and
   with the same product answer, leaves the status, the eligibility snapshot
   and the pickup sub-record that the first application left. *)
SameValidateOutcome(d, e) ==
    /\ d.returnStatus = e.returnStatus
    /\ d.isEligible = e.isEligible
    /\ d.eligibilityReason = e.eligibilityReason
    /\ d.isWithinReturnWindow = e.isWithinReturnWindow
    /\ d.isProductReturnable = e.isProductReturnable
    /\ d.pickupRequest = e.pickupRequest

C23_ValidateIdempotent ==
    \A id \in ReturnIds, today \in Days, product \in ProductOutcomes,
       borzoOk1 \in BOOLEAN, notifyOk1 \in BOOLEAN,
       borzoOk2 \in BOOLEAN, notifyOk2 \in BOOLEAN :
        LET once == ValidatedReturns(returns, orders, id, today, product,
                                     borzoOk1, notifyOk1)
            twice == ValidatedReturns(once, orders, id, today, product,
                                      borzoOk2, notifyOk2)
        IN SameValidateOutcome(once[id], twice[id])

----------------------------------------------------------------------------
(* C24: the evaluator finds an item without a delivery date ineligible;
   otherwise the item is eligible exactly when the evaluation day is not
   after the seventh day from delivery and the product service answered
   that the product is returnable; the reason is "Return window has
   expired" whenever the window has expired and "Product is not returnable"
   only when the window is open. *)
C24_EligibilityDecision ==
    (response.op = "validateReturnEligibility" /\ response.last.sku \in SKUs) =>
        LET e == response.last
            deliveredAt == orders[1].skus[e.sku].deliveredAt
            withinWindow == e.today <= deliveredAt + 7
            returnable == e.catalogOk /\ e.isReturnable
        IN IF deliveredAt = 0
           THEN ~e.result.isEligible
           ELSE /\ e.result.isEligible = (withinWindow /\ returnable)
                /\ ~withinWindow => e.result.reason = "Return window has expired"
                /\ (withinWindow /\ ~returnable)
                   => e.result.reason = "Product is not returnable"
                /\ e.result.reason = "Product is not returnable" => withinWindow

\* item A, delivered ten days before the evaluation, of a returnable
\* product: not eligible, the window has expired
C24_Witness ==
    /\ response.op = "validateReturnEligibility"
    /\ response.last.sku = "A"
    /\ orders[1].skus["A"].deliveredAt # 0
    /\ response.last.today = orders[1].skus["A"].deliveredAt + 10
    /\ response.last.isReturnable /\ response.last.catalogOk
    /\ ~response.last.result.isEligible
    /\ response.last.result.reason = "Return window has expired"

----------------------------------------------------------------------------
(* C25, as stated: two evaluations of the same item of the same order on the
   same day, the product being the same, return the same result, and an
   evaluation changes no order, return, ledger or violation document. *)
SameOrderProductTime(d, e) ==
    /\ d.sku = e.sku
    /\ d.today = e.today
    /\ d.isReturnable = e.isReturnable

StoresUnchanged ==
    UNCHANGED <<returns, orders, refunds, gateway, violations, dealerSlas>>

C25_DeterministicForProductState ==
    [][response'.op = "validateReturnEligibility" =>
          /\ StoresUnchanged
          /\ (response'.previous # NoEvaluation
              /\ SameOrderProductTime(response'.last, response'.previous))
             => response'.last.result = response'.previous.result]_vars

(* C25, amended: two evaluations of the same item of the same order on the
   same day that got the same answer from the product service, a failed call
   being an answer of its own, return the same result, and an evaluation
   changes no order, return, ledger or violation document. *)
C25_DeterministicForCatalogAnswer ==
    [][response'.op = "validateReturnEligibility" =>
          /\ StoresUnchanged
          /\ (response'.previous # NoEvaluation
              /\ SameOrderProductTime(response'.last, response'.previous)
              /\ response'.last.catalogOk = response'.previous.catalogOk)
             => response'.last.result = response'.previous.result]_vars

\* item A was found eligible twice in a row, on the same day with the same
\* answer of the product service
C25_Witness ==
    /\ response.op = "validateReturnEligibility"
    /\ response.previous # NoEvaluation
    /\ SameOrderProductTime(response.last, response.previous)
    /\ response.last.catalogOk /\ response.previous.catalogOk
    /\ response.last.result.isEligible
    /\ response.previous.result.isEligible

----------------------------------------------------------------------------
(* C26 and C27 speak of a run of the processor on an approved return: the
   calls the provider accepted in the run, and whether the customer has a
   bank account on file. *)
NewCalls(run) == SubSeq(run.gateway, Len(gateway) + 1, Len(run.gateway))

BankOnFile(profile) ==
    profile.found /\ profile.account_number /\ profile.ifsc_code
    /\ profile.bank_account_holder_name

ProviderAcceptsPayout == {"ok", "ledger_failed"}

(* C26: a run for which no payment record exists fails before any provider
   call.  Otherwise the bank payout is used exactly when the customer has
   account number, routing code and holder name on file (no bank account
   when the lookup fails) and the method asked for is Bank_Account or Wallet
   or the payment has no provider id: then a payout the provider accepts is
   its first call and a payout that goes through ends the run as a bank
   payout; in every other case no payout call is made and a successful run
   is a source refund. *)
C26_StrategySelection ==
    \A id \in ReturnIds :
        returns[id].returnStatus = "Approved" =>
        \A refundMethod \in RefundMethods, payment \in PaymentChoices,
           profile \in UserProfiles, payoutOutcome \in PayoutOutcomes,
           refundOutcome \in RefundOutcomes :
            LET run == RefundRun(id, refundMethod, payment, UserOutcomeOf(profile),
                                 payoutOutcome, refundOutcome)
                bankPayout == /\ BankOnFile(profile)
                              /\ \/ refundMethod \in {"Bank_Account", "Wallet"}
                                 \/ ~payment.hasPaymentId
            IN IF ~payment.exists
               THEN ~run.success /\ run.gateway = gateway /\ run.refunds = refunds
               ELSE IF bankPayout
               THEN /\ payoutOutcome \in ProviderAcceptsPayout
                       => (NewCalls(run) # <<>> /\ NewCalls(run)[1].kind = "payout")
                    /\ payoutOutcome = "ok"
                       => (run.success /\ run.refundType = "Bank_Payout"
                           /\ Len(NewCalls(run)) = 1)
               ELSE /\ \A i \in 1..Len(NewCalls(run)) : NewCalls(run)[i].kind = "refund"
                    /\ run.success => run.refundType = "Source_Refund"

\* on an approved return, a Wallet refund for a customer with a bank account
\* on file goes out as a bank payout, and the same refund for a customer
\* whose routing code is missing goes back to the source
C26_Witness ==
    \E id \in ReturnIds :
        /\ returns[id].returnStatus = "Approved"
        /\ response.op = "processRefund"
        /\ response.message = MsgRefundFailed
        /\ \E payment \in PaymentChoices, profile \in UserProfiles :
              /\ payment.hasPaymentId
              /\ BankOnFile(profile)
              /\ RefundRun(id, "Wallet", payment, UserOutcomeOf(profile), "ok",
                           "processed").refundType = "Bank_Payout"
              /\ RefundRun(id, "Wallet", payment,
                           UserOutcomeOf([profile EXCEPT !.ifsc_code = FALSE]), "ok",
                           "processed").refundType = "Source_Refund"

----------------------------------------------------------------------------
(* C27: when a run reaches the source-refund path and the payment has no
   provider id, or the amount asked for, in paise, is more than what was
   captured less what the provider has refunded already, the run fails, the
   provider accepts no refund call, the ledger is as it was and the return
   stays Approved; when the amount is within that balance and the provider
   processes the refund, the run succeeds with one refund of that amount. *)
C27_SourceRefundBalanceGuard ==
    \A id \in ReturnIds :
        returns[id].returnStatus = "Approved" =>
        \A refundMethod \in RefundMethods,
           payment \in PaymentChoices \cup CapturedPayments,
           userOutcome \in UserOutcomes, payoutOutcome \in PayoutOutcomes,
           refundOutcome \in RefundOutcomes :
            LET run == RefundRun(id, refundMethod, payment, userOutcome,
                                 payoutOutcome, refundOutcome)
                sourcePath == /\ payment.exists
                              /\ ~(UseBankPayout(userOutcome, refundMethod, payment)
                                   /\ payoutOutcome = "ok")
                requested == returns[id].refund.refundAmount * 100
                balance == payment.amount
                           - AmountRefunded(gateway, returns[id].orderId)
            IN sourcePath =>
               IF ~payment.hasPaymentId \/ requested > balance
               THEN /\ ~run.success
                    /\ \A i \in 1..Len(NewCalls(run)) : NewCalls(run)[i].kind # "refund"
                    /\ run.refunds = refunds
                    /\ RefundHandled(returns[id], run, "admin1",
                                     refundMethod).returnStatus = "Approved"
               ELSE refundOutcome = "processed"
                    => /\ run.success
                       /\ run.refunds # refunds
                       /\ NewCalls(run)[Len(NewCalls(run))]
                             = [kind |-> "refund", return_id |-> id,
                                order_id |-> returns[id].orderId,
                                amount |-> requested]

\* the provider has refunded the two items once, the ledger entry was lost
\* and the return is still Approved: nothing is left of the 200 captured, a
\* new run is stopped by the guard
C27_Witness ==
    \E id \in ReturnIds :
        /\ returns[id].returnStatus = "Approved"
        /\ returns[id].refund.refundAmount = 2
        /\ AmountRefunded(gateway, returns[id].orderId) = 200
        /\ refunds = <<>>
        /\ ~RefundRun(id, "Original_Payment_Method",
                      [exists |-> TRUE, hasPaymentId |-> TRUE, amount |-> 200],
                      "no_bank", "ok", "processed").success

----------------------------------------------------------------------------
(* C28: the calculator returns null for a dealer without a configuration or
   without an SLA type; otherwise the order date plus the expected hours,
   and with a dispatch window: the start of the window on the same day when
   the hour of that time is before the start, the start of the window on
   the next day when the hour is after the end, and that time itself when
   the hour is inside the window. *)
C28_SlaCalculator ==
    response.op = "calculateExpectedFulfillmentTime" =>
        LET cfg == FindDealerSLA(dealerSlas, response.dealerId)
            t == orders[1].orderDate + cfg.expected_hours * 3600
            day == t \div 86400
            hour == (t % 86400) \div 3600
        IN IF ~cfg.found \/ ~cfg.has_sla_type THEN response.result = NullTime
           ELSE IF ~cfg.has_dispatch_hours THEN response.result = t
           ELSE /\ hour < cfg.start
                   => response.result = day * 86400 + cfg.start * 3600
                /\ hour > cfg.end
                   => response.result = (day + 1) * 86400 + cfg.start * 3600
                /\ (cfg.start <= hour /\ hour < cfg.end) => response.result = t

\* an order of 17:29:59 with five expected hours: 22:29:59 is after the
\* window, the result is 09:00 of the next day
C28_Witness ==
    /\ response.op = "calculateExpectedFulfillmentTime"
    /\ response.dealerId = "d1"
    /\ dealerSlas["d1"].has_sla_type
    /\ dealerSlas["d1"].has_dispatch_hours
    /\ dealerSlas["d1"].expected_hours = 5
    /\ orders[1].orderDate = 17 * 3600 + 1799
    /\ response.result = 86400 + 9 * 3600

----------------------------------------------------------------------------
(* C29: a packed SKU with a packing time is violated exactly when its
   dealer (the SKU's own mapping before the order's) has an active SLA
   configuration with an SLA type and the SKU was packed after the expected
   time, by however little. *)
ClaimedDealer(order, item) ==
    IF item.dealerMapped # "" THEN item.dealerMapped
    ELSE IF Len(order.dealerMapping) = 0 THEN ""
    ELSE ResolveDealer(order, item)

PackedAfterExpected(order, item) ==
    LET cfg == FindDealerSLA(dealerSlas, ClaimedDealer(order, item))
    IN /\ cfg.found /\ cfg.is_active /\ cfg.has_sla_type
       /\ item.packedAt - calculateExpectedFulfillmentTime(order.orderDate, cfg) > 0

C29_SkuViolationRule ==
    \A o \in DOMAIN orders :
        \A i \in 1..Len(PackedSkus(orders[o])) :
            SkuLate(o, PackedSkus(orders[o])[i])
            <=> PackedAfterExpected(orders[o], PackedSkus(orders[o])[i])

----------------------------------------------------------------------------
(* C30: an SLA check changes an order only when every packed SKU of it is
   late, and then it changes nothing but the SLA summary, of which it
   writes all four fields: the flag, the minutes and the two times; a check
   of an order with no packed SKU, or with a packed SKU on time, leaves the
   order as it was. *)
C30_SummaryPatch ==
    [][response'.op \in SlaCheckOps =>
          \A o \in DOMAIN orders :
              /\ orders'[o] # orders[o] =>
                    /\ o \in response'.checked
                    /\ AllPackedLate(o)
                    /\ orders'[o] = [orders[o] EXCEPT !.slaInfo = orders'[o].slaInfo]
                    /\ orders'[o].slaInfo.isSLAMet = "false"
                    /\ orders'[o].slaInfo.violationMinutes > 0
                    /\ orders'[o].slaInfo.expectedFulfillmentTime # NullTime
                    /\ orders'[o].slaInfo.actualFulfillmentTime # NullTime
              /\ ~AllPackedLate(o) => orders'[o] = orders[o]]_vars

\* a check has written the summary of the order, all four fields of it
C30_Witness ==
    /\ response.op = "checkOrderSLAViolation"
    /\ response.result
    /\ orders[1].slaInfo.isSLAMet = "false"
    /\ orders[1].slaInfo.violationMinutes > 0
    /\ orders[1].slaInfo.expectedFulfillmentTime # NullTime
    /\ orders[1].slaInfo.actualFulfillmentTime = 120000

----------------------------------------------------------------------------
(* C31: in every reachable state the quantity of each ReturnRequest is at
   most the quantity ordered for its SKU in its order. *)
C31_QuantityWithinOrdered ==
    \A id \in ReturnIds :
        /\ returns[id].orderId \in DOMAIN orders
        /\ returns[id].sku \in DOMAIN orders[returns[id].orderId].skus
        /\ returns[id].quantity
              <= orders[returns[id].orderId].skus[returns[id].sku].quantity

\* a return of every item that was ordered of the SKU, at the end of the path
C31_Witness ==
    \E id \in ReturnIds :
        /\ returns[id].quantity
              = orders[returns[id].orderId].skus[returns[id].sku].quantity
        /\ returns[id].returnStatus = "Completed"

----------------------------------------------------------------------------
(* C32: a guarded operation invoked on a return in the status it requires
   (for process refund: when the processor reports success) moves the return
   to exactly the next status of the path and stamps the timestamp of that
   stage: schedule pickup to Pickup_Scheduled, complete pickup to
   Pickup_Completed with the tracking number of the request, start
   inspection to Under_Inspection with the inspector of the request,
   complete inspection to Approved or Rejected, process refund to
   Refund_Processed, complete to Completed; and no guarded operation moves a
   return by more than one stage. *)
NextStatuses(op) ==
    CASE op = "schedulePickup" -> {"Pickup_Scheduled"}
      [] op = "completePickup" -> {"Pickup_Completed"}
      [] op = "startInspection" -> {"Under_Inspection"}
      [] op = "completeInspection" -> {"Approved", "Rejected"}
      [] op = "processRefund" -> {"Refund_Processed"}
      [] op = "completeReturn" -> {"Completed"}

StampOf(op) ==
    CASE op = "schedulePickup" -> "pickupScheduledAt"
      [] op = "completePickup" -> "pickupCompletedAt"
      [] op = "startInspection" -> "inspectionStartedAt"
      [] op = "completeInspection" -> "inspectionCompletedAt"
      [] op = "processRefund" -> "refundProcessedAt"
      [] op = "completeReturn" -> "completedAt"

C32_HappyPathTable ==
    [][\A id \in ReturnIds : \A op \in GuardedOps :
          Answers(op, id) =>
              /\ Rank(returns'[id].returnStatus) - Rank(returns[id].returnStatus)
                    \in {0, 1}
              /\ (/\ returns[id].returnStatus = RequiredStatus(op)
                  /\ response'.message # MsgRefundFailed)
                 => /\ returns'[id].returnStatus \in NextStatuses(op)
                    /\ Rank(returns'[id].returnStatus)
                          = Rank(returns[id].returnStatus) + 1
                    /\ returns'[id].timestamps[StampOf(op)]
                    /\ op = "completePickup"
                       => returns'[id].pickupRequest.trackingNumber = "TRK_carrier"
                    /\ op = "startInspection"
                       => returns'[id].inspection.inspectedBy = "staff1"]_vars

\* a return that went the whole path, one stage at a time
C32_Witness ==
    /\ response.op = "completeReturn"
    /\ response.ok
    /\ returns[response.returnId].returnStatus = "Completed"
    /\ \A t \in DOMAIN NoTimestamps : returns[response.returnId].timestamps[t]
    /\ returns[response.returnId].pickupRequest.trackingNumber = "TRK_carrier"
    /\ returns[response.returnId].inspection.inspectedBy = "staff1"

----------------------------------------------------------------------------
(* C33: an approved return on which process refund is invoked again and
   again, the provider accepting again and again, eventually reaches
   Refund_Processed, whatever attempts failed before (or the provider has
   accepted MaxGateway calls, after which no further attempt is followed). *)
C33_RefundRetryLiveness ==
    <>(\/ returns[1].returnStatus \in {"Refund_Processed", "Completed"}
       \/ Len(gateway) >= MaxGateway)

----------------------------------------------------------------------------
(* C34: the ReturnRequest a successful operation returns has the status
   that is persisted for the request when the operation finishes. *)
C34_ReturnedIsPersisted ==
    (response.ok /\ response.returnId \in ReturnIds)
    => response.status = returns[response.returnId].returnStatus

----------------------------------------------------------------------------
(* C35: for each ReturnRequest at most one refund ledger entry is ever
   written and the payment provider accepts at most one payout or refund
   call. *)
AcceptedCallsOf(id) == {i \in 1..Len(gateway) : gateway[i].return_id = id}

C35_AtMostOneRefund ==
    \A id \in ReturnIds :
        /\ Cardinality(LedgerEntriesOf(id)) <= 1
        /\ Cardinality(AcceptedCallsOf(id)) <= 1

----------------------------------------------------------------------------
(* C36: in every reachable state, also of operations that interleave on one
   request, a return in Refund_Processed or Completed was approved by the
   inspection, has the action Refund, a refund transaction id and a
   reference to its ledger entry. *)
C36_RefundedWasApproved ==
    \A id \in ReturnIds :
        returns[id].returnStatus \in {"Refund_Processed", "Completed"}
        => /\ returns[id].inspection.isApproved = "true"
           /\ returns[id].actionTaken = "Refund"
           /\ returns[id].refund.transactionId # 0
           /\ returns[id].refund.refund_id \in 1..Len(refunds)

----------------------------------------------------------------------------
(* C37: in every reachable state a return whose status is at or beyond a
   stage has the timestamp of that stage: Validated or later validatedAt,
   Pickup_Scheduled or later pickupScheduledAt, Pickup_Completed or later
   pickupCompletedAt, Under_Inspection or later inspectionStartedAt,
   Approved, Rejected or later inspectionCompletedAt, Refund_Processed or
   later refundProcessedAt, Completed completedAt; and requestedAt always. *)
StageStamp(rank) ==
    CASE rank = 0 -> "requestedAt"
      [] rank = 1 -> "validatedAt"
      [] rank = 2 -> "pickupScheduledAt"
      [] rank = 3 -> "pickupCompletedAt"
      [] rank = 4 -> "inspectionStartedAt"
      [] rank = 5 -> "inspectionCompletedAt"
      [] rank = 6 -> "refundProcessedAt"
      [] rank = 7 -> "completedAt"

C37_TimestampLedger ==
    \A id \in ReturnIds :
        \A rank \in 0..7 :
            Rank(returns[id].returnStatus) >= rank
            => returns[id].timestamps[StageStamp(rank)]

\* a return that validate has taken back from Completed to Validated with
\* the notification failing: every stamp is still there
C37_Witness ==
    /\ response.op = "validate"
    /\ ~response.ok
    /\ response.returnId \in ReturnIds
    /\ returns[response.returnId].returnStatus = "Validated"
    /\ returns[response.returnId].timestamps.completedAt

----------------------------------------------------------------------------
(* C38: a create that reports failure has persisted no ReturnRequest and
   left the order as it was; a create that persists a ReturnRequest has set
   the back-reference to it on the matching order item and changed no other
   item. *)
CreateBackReference ==
    returns' # returns
    => /\ Len(returns') = Len(returns) + 1
       /\ LET id == Len(returns')
              doc == returns'[id]
          IN /\ orders'[doc.orderId].skus[doc.sku]
                   = [orders[doc.orderId].skus[doc.sku] EXCEPT !.return_id = id]
             /\ \A o \in DOMAIN orders : \A s \in DOMAIN orders[o].skus :
                   (o # doc.orderId \/ s # doc.sku)
                   => orders'[o].skus[s] = orders[o].skus[s]

C38_CreateAllOrNothing ==
    [][(Ready /\ response'.op = "create")
       => /\ ~response'.ok => (returns' = returns /\ orders' = orders)
          /\ CreateBackReference]_vars

----------------------------------------------------------------------------
(* C39: checkSLAViolationOnPacking, called for all SKUs of an order or for
   one SKU of it, reports hasViolation and allSkusViolated only if every
   packed SKU of the order is late by the SKU rule. *)
PackingCheck(o, packedAt, sku) ==
    checkSLAViolationOnPacking(o, orders[o], packedAt, sku, dealerSlas)

C39_OrderVerdictNeedsAllSkus ==
    \A o \in DOMAIN orders : \A sku \in Slots : \A packedAt \in PackTimes :
        (/\ PackingCheck(o, packedAt, sku).hasViolation
         /\ PackingCheck(o, packedAt, sku).allSkusViolated)
        => \A i \in 1..Len(PackedSkus(orders[o])) :
              SkuLate(o, PackedSkus(orders[o])[i])

----------------------------------------------------------------------------
(* C40: with a dispatch window configured, the expected fulfillment time the
   calculator returns has its hour of day inside the window: start <= hour
   and hour < end. *)
C40_ExpectedTimeInsideWindow ==
    response.op = "calculateExpectedFulfillmentTime" =>
        LET cfg == FindDealerSLA(dealerSlas, response.dealerId)
            hour == (response.result % 86400) \div 3600
        IN (cfg.found /\ cfg.has_sla_type /\ cfg.has_dispatch_hours)
           => (cfg.start <= hour /\ hour < cfg.end)

====
